---- MODULE Spec2Model ----
(***************************************************************************)
(* Model of the wine-portrait renderer of backend/imagegen.py              *)
(* (generate_wine_png_bytes, draw_residual_sugar_bar, hex_to_rgb).         *)
(*                                                                         *)
(* Numbers.  Python floats are fixed-point integers in thousandths         *)
(* ("milli"): 0.2 is 200, a colour channel 246.0 is 246000.  A product of   *)
(* two such numbers is (a * b) \div 1000.  The not-a-number value that      *)
(* numpy produces for a negative base raised to a fractional power is the   *)
(* value NaN below; it is absorbing for every arithmetic operator.          *)
(*                                                                         *)
(* Pixels.  A canvas of size s has s * s pixels.  The model keeps the       *)
(* pixels of Probes(s): a lattice on the horizontal radius through the      *)
(* centre and on the main diagonal up to the corner, so that every ring,    *)
(* the rim band and the region outside the disk all hold probe pixels.      *)
(* Every per-pixel formula of the code is applied to each probe pixel.      *)
(*                                                                         *)
(* Text.  A Python string is a sequence of one-character strings.           *)
(***************************************************************************)
EXTENDS Integers, Sequences, FiniteSets, TLC

VARIABLES call, log, nanCast, profile, db, req, saved, merge, files

vars == <<call, log, nanCast, profile, db, req, saved, merge, files>>

\* the variables of the profile and of the cache, those of the renderer
restVars == <<profile, db, req, saved, merge, files>>
renderVars == <<call, log, nanCast, files>>
restProps == <<profile, db, req, saved>>

-----------------------------------------------------------------------------
(* Arithmetic helpers *)

NaN == 0 - 2000000000

Min(a, b) == IF a < b THEN a ELSE b
Max(a, b) == IF a > b THEN a ELSE b
Abs(a) == IF a < 0 THEN 0 - a ELSE a

\* np.clip on a finite number
Clip(x, lo, hi) == Max(lo, Min(x, hi))

\* Python int(): truncation toward zero of num / den (den > 0)
IntTrunc(num, den) == IF num >= 0 THEN num \div den ELSE 0 - ((0 - num) \div den)

\* product of two milli numbers
MulM(a, b) == IntTrunc(a * b, 1000)

\* NaN-absorbing float operations on milli numbers
FAdd(a, b) == IF a = NaN \/ b = NaN THEN NaN ELSE a + b
FMul(a, b) == IF a = NaN \/ b = NaN THEN NaN ELSE MulM(a, b)
FClip(x, lo, hi) == IF x = NaN THEN NaN ELSE Clip(x, lo, hi)

RECURSIVE SqrtSearch(_, _, _)
SqrtSearch(n, lo, hi) ==
    IF lo >= hi THEN lo
    ELSE LET mid == (lo + hi + 1) \div 2
         IN IF mid * mid <= n THEN SqrtSearch(n, mid, hi)
                              ELSE SqrtSearch(n, lo, mid - 1)

\* floor of the square root of n >= 0
Isqrt(n) == SqrtSearch(n, 0, Min(n, 46340))

\* Linear interpolation in a table of values at 0, 50, 100, ... (milli);
\* the argument is held inside the table's range.
Interp(tab, x) ==
    LET top == (Len(tab) - 1) * 50
        xx  == Clip(x, 0, top)
        i   == xx \div 50
        f   == xx % 50
    IN IF i + 1 >= Len(tab) THEN tab[Len(tab)]
       ELSE tab[i + 1] + ((tab[i + 2] - tab[i + 1]) * f) \div 50

Pow05Tab ==
    <<0, 224, 316, 387, 447, 500, 548, 592, 632, 671, 707, 742, 775, 806, 837,
      866, 894, 922, 949, 975, 1000, 1025, 1049, 1072, 1095, 1118, 1140, 1162,
      1183, 1204, 1225>>
Pow06Tab ==
    <<0, 166, 251, 320, 381, 435, 486, 533, 577, 619, 660, 699, 736, 772, 807,
      841, 875, 907, 939, 970, 1000>>
Pow07Tab ==
    <<0, 123, 200, 265, 324, 379, 431, 480, 527, 572, 616, 658, 699, 740, 779,
      818, 855, 892, 929, 965, 1000, 1035, 1069, 1103, 1136, 1169, 1202, 1234,
      1266, 1297, 1328>>
Pow08Tab ==
    <<0, 91, 158, 219, 276, 330, 382, 432, 480, 528, 574, 620, 665, 708, 752,
      794, 837, 878, 919, 960, 1000, 1040, 1079, 1118, 1157, 1195, 1234, 1271,
      1309, 1346, 1383>>
Pow09Tab ==
    <<0, 67, 126, 181, 235, 287, 338, 389, 438, 487, 536, 584, 631, 679, 725,
      772, 818, 864, 910, 955, 1000, 1045, 1090, 1134, 1178, 1222, 1266, 1310,
      1354, 1397, 1440>>
Pow12Tab ==
    <<0, 27, 63, 103, 145, 189, 236, 284, 333, 384, 435, 488, 542, 596, 652,
      708, 765, 823, 881, 940, 1000>>
Pow18Tab ==
    <<0, 5, 16, 33, 55, 82, 115, 151, 192, 238, 287, 341, 399, 461, 526, 596,
      669, 746, 827, 912, 1000>>

\* x ** e for x >= 0 (milli); e is 5, 6, 7, 8, 9, 12 or 18 tenths
PowTab(e) ==
    CASE e = 5 -> Pow05Tab [] e = 6 -> Pow06Tab [] e = 7 -> Pow07Tab
      [] e = 8 -> Pow08Tab [] e = 9 -> Pow09Tab [] e = 12 -> Pow12Tab
      [] e = 18 -> Pow18Tab

\* numpy's x ** e with a fractional e: NaN for a negative base
FPow(x, e) ==
    IF x = NaN \/ x < 0 THEN NaN ELSE Interp(PowTab(e), x)

\* exp(-0.5 * z ** 2), z in milli, at 0, 250, 500, ... 4000 and beyond
GaussTab ==
    <<1000, 969, 882, 755, 607, 458, 325, 216, 135, 80, 44, 23, 11, 5, 2, 1, 0>>

Gauss(z) ==
    LET zz == Min(Abs(z), 4000)
        i  == zz \div 250
        f  == zz % 250
    IN IF i + 1 >= Len(GaussTab) THEN 0
       ELSE GaussTab[i + 1] + ((GaussTab[i + 2] - GaussTab[i + 1]) * f) \div 250

\* sin of an angle in milli-radians (Bhaskara's rational approximation)
SinM(a) ==
    LET x == a % 6283
        h == IF x <= 3141 THEN x ELSE x - 3141
        p == (h * (3141 - h)) \div 1000
        s == (16000 * p) \div (49348 - 4 * p)
    IN IF x <= 3141 THEN s ELSE 0 - s

CosM(a) == SinM(a + 1571)

\* arctan of q in [0, 1] (milli) in milli-radians
AtanUnit(q) == (785 * q) \div 1000 + (273 * q * (1000 - q)) \div 1000000

\* np.arctan2(dy, dx) in milli-radians; arctan2(0, 0) = 0
Atan2(dy, dx) ==
    LET ax == Abs(dx)
        ay == Abs(dy)
        a  == IF ax = 0 /\ ay = 0 THEN 0
              ELSE IF ax >= ay THEN AtanUnit((ay * 1000) \div ax)
              ELSE 1571 - AtanUnit((ax * 1000) \div ay)
        b  == IF dx >= 0 THEN a ELSE 3141 - a
    IN IF dy >= 0 THEN b ELSE 0 - b

-----------------------------------------------------------------------------
(* Values of the attribute record (the dict viz) *)

\* A dict value: None, a number, a string or a list.
NoneCell == [kind |-> "none", num |-> 0, text |-> <<>>]
Num(n) == [kind |-> "num", num |-> n, text |-> <<>>]
Str(t) == [kind |-> "str", num |-> 0, text |-> t]
ListCell == [kind |-> "list", num |-> 0, text |-> <<>>]

\* viz.get(name): None for a missing key
Get(viz, name) == IF name \in DOMAIN viz THEN viz[name] ELSE NoneCell

\* viz.get(name, default)
GetOr(viz, name, default) == IF name \in DOMAIN viz THEN viz[name] ELSE default

HexDigits ==
    <<"0", "1", "2", "3", "4", "5", "6", "7", "8", "9",
      "A", "B", "C", "D", "E", "F">>
LowerHex == <<"a", "b", "c", "d", "e", "f">>

IsHexDigit(ch) ==
    \/ \E i \in 1..16 : HexDigits[i] = ch
    \/ \E i \in 1..6 : LowerHex[i] = ch

HexVal(ch) ==
    IF \E i \in 1..16 : HexDigits[i] = ch
    THEN (CHOOSE i \in 1..16 : HexDigits[i] = ch) - 1
    ELSE (CHOOSE i \in 1..6 : LowerHex[i] = ch) + 9

IsDigit(ch) == \E i \in 1..10 : HexDigits[i] = ch

RECURSIVE LStrip(_, _)
LStrip(t, chars) ==
    IF t # <<>> /\ Head(t) \in chars THEN LStrip(Tail(t), chars) ELSE t

RECURSIVE RStrip(_, _)
RStrip(t, chars) ==
    IF t # <<>> /\ t[Len(t)] \in chars
    THEN RStrip(SubSeq(t, 1, Len(t) - 1), chars) ELSE t

\* str.strip(): leading and trailing blanks removed
Strip(t) == RStrip(LStrip(t, {" "}), {" "})

\* The byte (value >> shift) & 255 of the number written by the hex digits
\* h, for shift = 16, 8, 0: its two hex digits counted from the right.
ByteAt(h, shift) ==
    LET lo == Len(h) - shift \div 4
        hi == lo - 1
        d(i) == IF i >= 1 THEN HexVal(h[i]) ELSE 0
    IN 16 * d(hi) + d(lo)

\* hex_to_rgb: the triple, or the ValueError of int(h, 16)
hex_to_rgb(hex_str) ==
    LET h0 == LStrip(Strip(hex_str), {"#"})
        h  == IF Len(h0) = 6 THEN <<"F", "F">> \o h0 ELSE h0
    IN IF h = <<>> \/ \E i \in 1..Len(h) : ~IsHexDigit(h[i])
       THEN [err |-> "ValueError", rgb |-> <<0, 0, 0>>]
       ELSE [err |-> "", rgb |-> <<ByteAt(h, 16), ByteAt(h, 8), ByteAt(h, 0)>>]

DefaultHex == <<"#", "F", "6", "F", "2", "A", "F">>

\* base_hex = viz.get("base_color_hex") or "#F6F2AF"; hex_to_rgb(base_hex).
\* None, "" and 0 are falsy; a value that is no string has no strip().
BaseColor(viz) ==
    LET v == Get(viz, "base_color_hex")
        falsy == \/ v.kind = "none"
                 \/ v.kind = "str" /\ v.text = <<>>
                 \/ v.kind = "num" /\ v.num = 0
    IN IF falsy THEN hex_to_rgb(DefaultHex)
       ELSE IF v.kind = "str" THEN hex_to_rgb(v.text)
       ELSE [err |-> "AttributeError", rgb |-> <<0, 0, 0>>]

RECURSIVE DigitsVal(_)
DigitsVal(t) ==
    IF t = <<>> THEN 0 ELSE 10 * DigitsVal(SubSeq(t, 1, Len(t) - 1)) + HexVal(t[Len(t)])

\* float(text) for decimal numerals "ddd", "ddd.ddd", ".ddd", "ddd." with an
\* optional sign and surrounding blanks; every other text is a ValueError.
ParseFloat(text) ==
    LET s0 == Strip(text)
        neg == s0 # <<>> /\ Head(s0) = "-"
        s == IF s0 # <<>> /\ Head(s0) \in {"-", "+"} THEN Tail(s0) ELSE s0
        dots == {i \in 1..Len(s) : s[i] = "."}
        dot == IF dots = {} THEN Len(s) + 1 ELSE CHOOSE i \in dots : TRUE
        ip == SubSeq(s, 1, dot - 1)
        fp == SubSeq(s, dot + 1, Len(s))
        fp3 == SubSeq(fp \o <<"0", "0", "0">>, 1, 3)
        wellFormed == /\ Cardinality(dots) <= 1
                      /\ Len(ip) + Len(fp) >= 1
                      /\ \A i \in 1..Len(s) : i = dot \/ IsDigit(s[i])
        mag == DigitsVal(ip) * 1000 + DigitsVal(fp3)
    IN IF wellFormed
       THEN [err |-> "", val |-> IF neg THEN 0 - mag ELSE mag]
       ELSE [err |-> "ValueError", val |-> 0]

\* float(v) for a dict value that is not None
FloatOf(v) ==
    CASE v.kind = "num" -> [err |-> "", val |-> v.num]
      [] v.kind = "str" -> ParseFloat(v.text)
      [] OTHER -> [err |-> "TypeError", val |-> 0]

\* _f with "return 0.0" in its except branch
_fZeroOnError(viz, name, default) ==
    LET v == Get(viz, name)
    IN IF v.kind = "none" THEN default
       ELSE LET r == FloatOf(v)
            IN IF r.err \in {"TypeError", "ValueError"} THEN 0 ELSE r.val

\* _f(name, default): float(v), or the default for None and for a value
\* whose conversion raises TypeError or ValueError
_f(viz, name, default) ==
    LET v == Get(viz, name)
    IN IF v.kind = "none" THEN default
       ELSE LET r == FloatOf(v)
            IN IF r.err \in {"TypeError", "ValueError"} THEN default ELSE r.val

ScalarFields ==
    <<"oak_intensity", "mineral_intensity", "acidity", "herbal_intensity",
      "spice_intensity", "fruit_citrus", "fruit_stone", "fruit_tropical",
      "fruit_red", "fruit_dark", "body", "depth", "effervescence",
      "residual_sugar">>

\* the default each call of _f passes
FieldDefault(name) == IF name \in {"acidity", "body", "depth"} THEN 500 ELSE 0

\* the fourteen scalars read from the record
Scalars(viz) ==
    [n \in {ScalarFields[i] : i \in 1..Len(ScalarFields)} |->
        _f(viz, n, FieldDefault(n))]

-----------------------------------------------------------------------------
(* Wine family *)

T_red == <<"r", "e", "d">>
T_rose == <<"r", "o", "s", "e">>
T_white == <<"w", "h", "i", "t", "e">>
T_auto == <<"a", "u", "t", "o">>

\* base_brightness < 0.5, with base_brightness = mean(R, G, B) / 255,
\* compared exactly: (R + G + B) / 765 < 1 / 2
BrightnessBelow(rgb, num, den) == (rgb[1] + rgb[2] + rgb[3]) * den < 765 * num

\* AutoFamily with the red dominance test R >= G + 30
AutoFamilyWeakDominance(rgb) ==
    LET red == BrightnessBelow(rgb, 1, 2)
        rose == /\ ~BrightnessBelow(rgb, 1, 2)
                /\ BrightnessBelow(rgb, 7, 10)
                /\ rgb[1] >= rgb[2] + 30
                /\ rgb[2] < 160
    IN [is_red_wine |-> red, is_rose |-> rose]

\* is_red_wine, is_rose of the else branch (auto)
AutoFamily(rgb) ==
    LET red == BrightnessBelow(rgb, 1, 2)
        rose == /\ ~BrightnessBelow(rgb, 1, 2)
                /\ BrightnessBelow(rgb, 7, 10)
                /\ rgb[1] > rgb[2] + 30
                /\ rgb[2] < 160
    IN [is_red_wine |-> red, is_rose |-> rose]

\* Family comparing wine_type with the accented spelling of WINE_TYPES
FamilyAccentedRose(viz, rgb) ==
    LET wt == GetOr(viz, "wine_type", Str(<<"a", "u", "t", "o">>))
        word == IF wt.kind = "str" THEN wt.text ELSE <<>>
    IN IF word = T_red THEN [is_red_wine |-> TRUE, is_rose |-> FALSE]
       ELSE IF word = <<"r", "o", "s", "é">>
       THEN [is_red_wine |-> FALSE, is_rose |-> TRUE]
       ELSE IF word = T_white THEN [is_red_wine |-> FALSE, is_rose |-> FALSE]
       ELSE AutoFamily(rgb)

\* the if / elif chain on wine_type
Family(viz, rgb) ==
    LET wt == GetOr(viz, "wine_type", Str(T_auto))
        word == IF wt.kind = "str" THEN wt.text ELSE <<>>
    IN IF word = T_red THEN [is_red_wine |-> TRUE, is_rose |-> FALSE]
       ELSE IF word = T_rose THEN [is_red_wine |-> FALSE, is_rose |-> TRUE]
       ELSE IF word = T_white THEN [is_red_wine |-> FALSE, is_rose |-> FALSE]
       ELSE AutoFamily(rgb)

-----------------------------------------------------------------------------
(* Geometry *)

\* Probe pixels of a canvas of size s: 24 columns from the centre to the
\* right edge on the row of the centre, and 8 pixels of the main diagonal
\* from the corner (0, 0) inward.
Probes(s) ==
    {<<s \div 2 + (k * s) \div 48, s \div 2>> : k \in 0..23}
    \cup {<<(k * s) \div 32, (k * s) \div 32>> : k \in 0..7}
    \cup {<<s - 1, s \div 2>>}

\* twice dx = xx - cx and twice dy = yy - cy (cx = cy = size / 2.0)
Dx2(p, s) == 2 * p[1] - s
Dy2(p, s) == 2 * p[2] - s

\* t = r / max_r with r = sqrt(dx^2 + dy^2), max_r = 0.95 * size / 2 (milli)
TOf(p, s) ==
    (Isqrt((Dx2(p, s) * Dx2(p, s) + Dy2(p, s) * Dy2(p, s)) * 100) * 10000)
        \div (95 * s)

\* angles = arctan2(dy, dx) (milli-radians)
AngleOf(p, s) == Atan2(Dy2(p, s), Dx2(p, s))

\* max_r = min(cx, cy) * 0.95 in milli pixels
MaxR(s) == 475 * s

-----------------------------------------------------------------------------
(* The pseudo-random generator *)

\* np.random.default_rng(seed): the generator's state.  The model's
\* generator is a 16-bit linear congruential one.
default_rng(seed) == seed % 65536

\* the state after one draw
RngNext(g) == (g * 25173 + 13849) % 65536

\* rng.uniform(lo, hi) and rng.random(): the value drawn in state g
Uniform(g, lo, hi) == lo + ((hi - lo) * g) \div 65536

\* rng.integers(lo, hi): hi is exclusive
Integers_(g, lo, hi) == lo + ((hi - lo) * g) \div 65536

\* rng.normal(0, 1): a draw around 0 (milli)
Normal(g) == Uniform(g, 0 - 3000, 3000)

\* rng.beta(2, 1.5): a draw in [0, 1] (milli)
Beta(g) == Isqrt(Uniform(g, 0, 1000) * 1000)

-----------------------------------------------------------------------------
(* Pixel buffers *)

\* the probes in numpy's row-major order
RECURSIVE OrderPixels(_)
OrderPixels(S) ==
    IF S = {} THEN <<>>
    ELSE LET first == CHOOSE p \in S : \A q \in S :
                          p[2] < q[2] \/ (p[2] = q[2] /\ p[1] <= q[1])
         IN <<first>> \o OrderPixels(S \ {first})

ProbeSeq(s) == OrderPixels(Probes(s))

\* the same operation on the three channels of a pixel
Map3(Op(_), px) == <<Op(px[1]), Op(px[2]), Op(px[3])>>

\* px * (1 - opacity) + color * opacity on one channel (milli)
Blend1(v, c, opacity) == FAdd(FMul(v, 1000 - opacity), FMul(c, opacity))

Blend3(px, color, opacity) ==
    <<Blend1(px[1], color[1], opacity),
      Blend1(px[2], color[2], opacity),
      Blend1(px[3], color[3], opacity)>>

\* a colour of whole channel values as milli numbers
Milli3(rgb) == <<rgb[1] * 1000, rgb[2] * 1000, rgb[3] * 1000>>

-----------------------------------------------------------------------------
(* Layer 1: base gradient, radial texture and noise *)

\* brightness of the family's curve at radius t
Brightness(fam, t) ==
    IF fam.is_red_wine THEN 500 + MulM(600, FPow(t, 7))
    ELSE IF fam.is_rose
    THEN 600 + MulM(500, FPow(t, 5)) - MulM(300, FPow(Clip(1000 - t, 0, 1000), 12))
    ELSE 1050 + MulM(20, FPow(Clip(t, 0, 1000), 5))
              - MulM(100, FPow(Clip(1000 - t, 0, 1000), 12))

\* the flat base colour with the family's channel shift at radius t;
\* for white, center_weight = (1 - t) ** 1.8 is NaN where t > 1
Shifted(fam, rgb, t) ==
    LET b == Milli3(rgb)
    IN IF fam.is_red_wine
       THEN <<b[1] + FPow(t, 8) * 25, b[2] + FPow(t, 8) * 15, b[3]>>
       ELSE IF fam.is_rose
       THEN <<b[1] + FPow(t, 9) * 15, b[2], b[3]>>
       ELSE LET cw == FPow(1000 - t, 18)
            IN <<b[1],
                 IF cw = NaN THEN NaN ELSE b[2] - cw * 20,
                 IF cw = NaN THEN NaN ELSE b[3] - cw * 35>>

\* 1 + (radial_lines - 0.5) * texture_strength
TextureFactor(t, angle) ==
    LET radial_lines == SinM(angle * 80 + t * 20) \div 2 + 500
        texture_strength == MulM(30, 1000 - t \div 2)
    IN 1000 + MulM(radial_lines - 500, texture_strength)

\* the base layer's pixel before noise
BasePixel(fam, rgb, t, angle) ==
    LET k1 == Clip(Brightness(fam, t), 300, 1500)
        k2 == TextureFactor(t, angle)
        sh == Shifted(fam, rgb, t)
    IN <<FMul(FMul(sh[1], k1), k2), FMul(FMul(sh[2], k1), k2),
         FMul(FMul(sh[3], k1), k2)>>

\* rng.normal(0, 1, (h, w)): one draw per pixel, in row-major order
RECURSIVE NoiseDraws(_, _)
NoiseDraws(g, n) ==
    IF n = 0 THEN <<>>
    ELSE <<Normal(RngNext(g))>> \o NoiseDraws(RngNext(g), n - 1)

RECURSIVE Advance(_, _)
Advance(g, n) == IF n = 0 THEN g ELSE Advance(RngNext(g), n - 1)

RECURSIVE MaxAbs(_)
MaxAbs(q) == IF q = <<>> THEN 0 ELSE Max(Abs(Head(q)), MaxAbs(Tail(q)))

\* noise / (abs(noise).max() + 1e-6)
Normalised(n, peak) == IF peak = 0 THEN 0 ELSE IntTrunc(n * 1000, peak)

IndexOf(q, x) == CHOOSE i \in 1..Len(q) : q[i] = x

\* lines 476-501: the wine buffer after layer 1 and the generator after it
BaseLayer(c) ==
    LET order == ProbeSeq(c.size)
        draws == NoiseDraws(c.rng, Len(order))
        peak  == MaxAbs(draws)
        wine  == [p \in Probes(c.size) |->
                    LET n == Normalised(draws[IndexOf(order, p)], peak)
                        k == 1000 + MulM(n, 15)
                        b == BasePixel(c.fam, c.base_rgb, c.t[p], c.angles[p])
                    IN <<FMul(b[1], k), FMul(b[2], k), FMul(b[3], k)>>]
    IN [c EXCEPT !.wine = wine, !.rng = Advance(c.rng, Len(order)),
                 !.pc = "rings", !.ring = 1]

-----------------------------------------------------------------------------
(* Layer 2: rings *)

NoColor == <<>>

\* RING_DEFINITIONS: name, center, width, color, the field giving intensity
RING_DEFINITIONS ==
    << [name |-> "Holz/Fass",    center |-> 780, width |-> 60, color |-> <<140, 90, 50>>,   field |-> "oak_intensity"],
       [name |-> "Mineralität",  center |-> 720, width |-> 60, color |-> <<130, 140, 150>>, field |-> "mineral_intensity"],
       [name |-> "Säure",        center |-> 660, width |-> 60, color |-> <<160, 200, 120>>, field |-> "acidity"],
       [name |-> "Kräuter",      center |-> 600, width |-> 60, color |-> <<70, 120, 70>>,   field |-> "herbal_intensity"],
       [name |-> "Würze",        center |-> 540, width |-> 60, color |-> <<170, 100, 45>>,  field |-> "spice_intensity"],
       [name |-> "Zitrus",       center |-> 480, width |-> 50, color |-> <<240, 220, 70>>,  field |-> "fruit_citrus"],
       [name |-> "Steinobst",    center |-> 420, width |-> 50, color |-> <<240, 170, 90>>,  field |-> "fruit_stone"],
       [name |-> "Tropisch",     center |-> 360, width |-> 50, color |-> <<240, 200, 55>>,  field |-> "fruit_tropical"],
       [name |-> "Rotfrucht",    center |-> 300, width |-> 50, color |-> <<200, 60, 60>>,   field |-> "fruit_red"],
       [name |-> "Dunkelfrucht", center |-> 240, width |-> 50, color |-> <<80, 35, 80>>,    field |-> "fruit_dark"],
       [name |-> "Körper",       center |-> 180, width |-> 60, color |-> <<140, 70, 45>>,   field |-> "body"],
       [name |-> "Tiefe",        center |-> 120, width |-> 80, color |-> NoColor,           field |-> "depth"] >>

\* the loop skipping with "if intensity <= 0.2: continue"
RingVisibleAboveOnly(intensity) == ~(intensity <= 200)

\* if intensity < 0.2: continue
RingVisible(intensity) == ~(intensity < 200)

\* the taper ending at t = 0.92
TaperWide(t) == Clip((920 - t) * 10, 0, 1000)

\* np.clip((0.82 - t) / 0.10, 0, 1)
Taper(t) == Clip((820 - t) * 10, 0, 1000)

\* ring_weight: the Gaussian of |t - center| with sigma = width * 0.5,
\* times the taper
RingWeight(ring, t) ==
    LET sigma == ring.width \div 2
        dist == Abs(t - ring.center)
    IN MulM(Gauss((dist * 1000) \div sigma), Taper(t))

\* ring_opacity = ring_weight * (0.08 + intensity * 0.27)
RingOpacity(weight, intensity) == MulM(weight, 80 + MulM(intensity, 270))

\* the ring's colour as blended: brightened for red wine, else 0.9 of it
RingColor(ring, fam) ==
    LET adj(v) == IF fam.is_red_wine THEN Clip(v * 1300 + 30000, 0, 255000)
                  ELSE Clip(v * 900, 0, 255000)
    IN Map3(adj, ring.color)

\* one ring composited on one pixel
RingPixel(ring, fam, intensity, px, t) ==
    LET op == RingOpacity(RingWeight(ring, t), intensity)
    IN IF ring.color = NoColor
       THEN <<FMul(px[1], 1000 - MulM(op, 400)), FMul(px[2], 1000 - MulM(op, 400)),
              FMul(px[3], 1000 - MulM(op, 400))>>
       ELSE Blend3(px, RingColor(ring, fam), op)

\* the loop taking RING_DEFINITIONS from its last entry to its first
RingStepReversed(c) ==
    LET at == Len(RING_DEFINITIONS) + 1 - c.ring
        ring == RING_DEFINITIONS[at]
        intensity == c.par[ring.field]
        wine == IF RingVisible(intensity)
                THEN [p \in DOMAIN c.wine |->
                         RingPixel(ring, c.fam, intensity, c.wine[p], c.t[p])]
                ELSE c.wine
        drawn == IF RingVisible(intensity)
                 THEN Append(c.drawn, [ring |-> at,
                                       coeff |-> RingOpacity(1000, intensity)])
                 ELSE c.drawn
    IN [c EXCEPT !.wine = wine, !.drawn = drawn, !.ring = c.ring + 1,
                 !.pc = IF c.ring = Len(RING_DEFINITIONS) THEN "dots" ELSE "rings"]

\* one iteration of the loop over RING_DEFINITIONS (lines 519-536)
RingStep(c) ==
    LET ring == RING_DEFINITIONS[c.ring]
        intensity == c.par[ring.field]
        wine == IF RingVisible(intensity)
                THEN [p \in DOMAIN c.wine |->
                         RingPixel(ring, c.fam, intensity, c.wine[p], c.t[p])]
                ELSE c.wine
        drawn == IF RingVisible(intensity)
                 THEN Append(c.drawn, [ring |-> c.ring,
                                       coeff |-> RingOpacity(1000, intensity)])
                 ELSE c.drawn
    IN [c EXCEPT !.wine = wine, !.drawn = drawn, !.ring = c.ring + 1,
                 !.pc = IF c.ring = Len(RING_DEFINITIONS) THEN "dots" ELSE "rings"]

-----------------------------------------------------------------------------
(* Layer 3: ambient dots and sparkle marks *)

InCanvas(x, y, s) == 0 <= x /\ x < s /\ 0 <= y /\ y < s

\* int(cx + radius * cos(angle)), int(cy + radius * sin(angle)); radius in
\* milli pixels
PolarX(s, radius, angle) == IntTrunc(500 * s + MulM(radius, CosM(angle)), 1000)
PolarY(s, radius, angle) == IntTrunc(500 * s + MulM(radius, SinM(angle)), 1000)

\* wine[y, x] for a pixel of the canvas: the probe itself, or for a pixel
\* between probes the probe nearest to it in radius
Sample(wine, tt, x, y, s) ==
    IF <<x, y>> \in DOMAIN wine THEN wine[<<x, y>>]
    ELSE LET t == TOf(<<x, y>>, s)
             near == CHOOSE p \in DOMAIN wine : \A q \in DOMAIN wine :
                         Abs(tt[p] - t) <= Abs(tt[q] - t)
         IN wine[near]

\* n_dots = int(size * size * 0.0003)
NDots(s) == (s * s * 3) \div 10000

\* one iteration of the dot loop (lines 540-558) on acc = [g, wine, marks]
DotStep(acc, fam, tt, s) ==
    LET g1 == RngNext(acc.g)
        angle == Uniform(g1, 0, 6283)
        g2 == RngNext(g1)
        radius == MulM(Uniform(g2, 200, 850), MaxR(s))
        x == PolarX(s, radius, angle)
        y == PolarY(s, radius, angle)
        g3 == RngNext(g2)
        dot_size == Integers_(g3, 1, 2)
        g4 == RngNext(g3)
        opacity == Uniform(g4, 100, 250)
        current == Sample(acc.wine, tt, x, y, s)
        dot_color == IF fam.is_red_wine
                     THEN <<FMul(current[1], 1200), FMul(current[2], 1200),
                            FMul(current[3], 1200)>>
                     ELSE Milli3(<<160, 195, 210>>)
        hit(p) == (p[1] - x) * (p[1] - x) + (p[2] - y) * (p[2] - y)
                      <= dot_size * dot_size
    IN IF InCanvas(x, y, s)
       THEN [g |-> g4,
             wine |-> [p \in DOMAIN acc.wine |->
                          IF hit(p) THEN Blend3(acc.wine[p], dot_color, opacity)
                          ELSE acc.wine[p]],
             marks |-> Append(acc.marks,
                          [kind |-> "dot", x |-> x, y |-> y, size |-> dot_size,
                           opacity |-> opacity, radius |-> radius])]
       ELSE [acc EXCEPT !.g = g2]

\* for _ in range(n_dots): the iterations lo .. hi - 1, the first half
\* before the second
RECURSIVE DotLoop(_, _, _, _, _, _)
DotLoop(acc, fam, tt, s, lo, hi) ==
    IF hi <= lo THEN acc
    ELSE IF hi = lo + 1 THEN DotStep(acc, fam, tt, s)
    ELSE LET mid == (lo + hi) \div 2
             half == DotLoop(acc, fam, tt, s, lo, mid)
         IN IF half.g >= 0 THEN DotLoop(half, fam, tt, s, mid, hi) ELSE half

\* lines 539-558
Dots(c) ==
    LET r == DotLoop([g |-> c.rng, wine |-> c.wine, marks |-> <<>>],
                     c.fam, c.t, c.size, 0, NDots(c.size))
    IN [c EXCEPT !.wine = r.wine, !.rng = r.g, !.dots = r.marks,
                 !.pc = "sparkles"]

\* the opacity growing along the arm
ArmOpacityGrowing(d, arm_length, eff) ==
    LET falloff == 1000 + (((d * 1000) \div arm_length) * 600) \div 1000
    IN MulM(MulM(800, falloff), eff)

\* falloff = 1.0 - (d / arm_length) * 0.6; opacity = 0.8 * falloff *
\* effervescence
ArmOpacity(d, arm_length, eff) ==
    LET falloff == 1000 - (((d * 1000) \div arm_length) * 600) \div 1000
    IN MulM(MulM(800, falloff), eff)

\* the pixels of one star arm, d = 0 .. arm_length - 1, blended in order
RECURSIVE ArmLoop(_, _, _, _, _, _, _, _)
ArmLoop(wine, s, bx, by, arm_angle, arm_length, eff, d) ==
    IF d >= arm_length THEN wine
    ELSE LET px == IntTrunc(bx * 1000 + d * CosM(arm_angle), 1000)
             py == IntTrunc(by * 1000 + d * SinM(arm_angle), 1000)
             opacity == ArmOpacity(d, arm_length, eff)
             next == IF <<px, py>> \in DOMAIN wine
                     THEN [wine EXCEPT ![<<px, py>>] =
                              Blend3(wine[<<px, py>>], Milli3(<<255, 255, 250>>),
                                     opacity)]
                     ELSE wine
         IN ArmLoop(next, s, bx, by, arm_angle, arm_length, eff, d + 1)

\* the arms of one star, arm_i = 0 .. n_arms - 1; acc = [g, wine]
RECURSIVE StarArms(_, _, _, _, _, _, _, _)
StarArms(acc, s, bx, by, n_arms, arm_length, eff, arm_i) ==
    IF arm_i >= n_arms THEN acc
    ELSE LET g1 == RngNext(acc.g)
             arm_angle == (6283 * arm_i) \div n_arms + Uniform(g1, 0 - 150, 150)
         IN StarArms([g |-> g1,
                      wine |-> ArmLoop(acc.wine, s, bx, by, arm_angle,
                                       arm_length, eff, 0)],
                     s, bx, by, n_arms, arm_length, eff, arm_i + 1)

\* the solid core of a star: wine * 0.2 + (255, 255, 252) * 0.8 within 2 px
StarCore(wine, bx, by) ==
    [p \in DOMAIN wine |->
        IF (p[1] - bx) * (p[1] - bx) + (p[2] - by) * (p[2] - by) <= 4
        THEN Blend3(wine[p], Milli3(<<255, 255, 252>>), 800)
        ELSE wine[p]]

\* is_highlight: the upper-left crescent of a round bubble
IsHighlight(ddx, ddy, bubble_size) ==
    ddx < 0 /\ ddy < 0
    /\ ddx * ddx + ddy * ddy > (bubble_size - 2) * (bubble_size - 2)

\* whether a round bubble blends pixel (ddx, ddy) at all
BubbleCovers(ddx, ddy, bubble_size) ==
    LET dist_sq == ddx * ddx + ddy * ddy
    IN /\ dist_sq <= (bubble_size + 2) * (bubble_size + 2)
       /\ IsHighlight(ddx, ddy, bubble_size) \/ dist_sq <= bubble_size * bubble_size

\* the opacity a round bubble blends pixel (ddx, ddy) with
BubbleOpacity(ddx, ddy, bubble_size, eff) ==
    IF IsHighlight(ddx, ddy, bubble_size) THEN MulM(850, eff) ELSE MulM(400, eff)

\* a round bubble stamped on the buffer
RoundBubble(wine, bx, by, bubble_size, eff) ==
    [p \in DOMAIN wine |->
        LET ddx == p[1] - bx
            ddy == p[2] - by
            op == BubbleOpacity(ddx, ddy, bubble_size, eff)
            glass(v) == FClip(FAdd(FMul(v, 1300), 30000), 0, 255000)
        IN IF ~BubbleCovers(ddx, ddy, bubble_size) THEN wine[p]
           ELSE IF IsHighlight(ddx, ddy, bubble_size)
           THEN Blend3(wine[p], Milli3(<<255, 255, 255>>), op)
           ELSE Blend3(wine[p], Map3(glass, wine[p]), op)]

\* n_bubbles = int(effervescence * 400 * (size / 512))
NBubbles(eff, s) == IntTrunc(eff * 400 * s, 512000)

\* one iteration of the sparkle loop (lines 563-607) on acc = [g, wine, marks]
BubbleStep(acc, s, eff) ==
    LET g1 == RngNext(acc.g)
        angle == Uniform(g1, 0, 6283)
        g2 == RngNext(g1)
        radius == MulM(MulM(Beta(g2), 850), MaxR(s))
        bx == PolarX(s, radius, angle)
        by == PolarY(s, radius, angle)
        base_size == IntTrunc(3000 + eff * 4, 1000)
        g3 == RngNext(g2)
        bubble_size == Integers_(g3, base_size - 2, base_size + 3)
        g4 == RngNext(g3)
        star == Uniform(g4, 0, 1000) < 500
        g5 == RngNext(g4)
        n_arms == IF Uniform(g5, 0, 1000) < 600 THEN 4 ELSE 6
        g6 == RngNext(g5)
        arm_length == bubble_size + Integers_(g6, 2, 6)
        arms == StarArms([g |-> g6, wine |-> acc.wine], s, bx, by, n_arms,
                         arm_length, eff, 0)
    IN IF ~InCanvas(bx, by, s) THEN [acc EXCEPT !.g = g2]
       ELSE IF star
       THEN [g |-> arms.g,
             wine |-> StarCore(arms.wine, bx, by),
             marks |-> Append(acc.marks,
                          [kind |-> "star", x |-> bx, y |-> by,
                           size |-> arm_length, arms |-> n_arms,
                           weights |-> [i \in 1..arm_length |->
                                           ArmOpacity(i - 1, arm_length, eff)]
                                       \o <<800>>])]
       ELSE [g |-> g4,
             wine |-> RoundBubble(acc.wine, bx, by, bubble_size, eff),
             marks |-> Append(acc.marks,
                          [kind |-> "bubble", x |-> bx, y |-> by,
                           size |-> bubble_size, arms |-> 0,
                           weights |-> <<BubbleOpacity(0 - bubble_size,
                                             0 - bubble_size, bubble_size, eff),
                                         BubbleOpacity(0, 0, bubble_size, eff)>>])]

\* for _ in range(n_bubbles): the iterations lo .. hi - 1, the first half
\* before the second
RECURSIVE BubbleLoop(_, _, _, _, _)
BubbleLoop(acc, s, eff, lo, hi) ==
    IF hi <= lo THEN acc
    ELSE IF hi = lo + 1 THEN BubbleStep(acc, s, eff)
    ELSE LET mid == (lo + hi) \div 2
             half == BubbleLoop(acc, s, eff, lo, mid)
         IN IF half.g >= 0 THEN BubbleLoop(half, s, eff, mid, hi) ELSE half

\* the block entered from 0.1 on
SparklesOnFromTenth(eff) == eff >= 100

\* if effervescence > 0.1
SparklesOn(eff) == eff > 100

\* lines 561-607
Sparkles(c) ==
    LET eff == c.par["effervescence"]
        r == IF SparklesOn(eff)
             THEN BubbleLoop([g |-> c.rng, wine |-> c.wine, marks |-> <<>>],
                             c.size, eff, 0, NBubbles(eff, c.size))
             ELSE [g |-> c.rng, wine |-> c.wine, marks |-> <<>>]
    IN [c EXCEPT !.wine = r.wine, !.rng = r.g, !.marks = r.marks,
                 !.tried = IF SparklesOn(eff) THEN NBubbles(eff, c.size) ELSE 0,
                 !.pc = "blur"]

-----------------------------------------------------------------------------
(* Post-processing: blur, rim repair, circular mask *)

\* np.clip(v, 0, 255).astype(np.uint8) of one channel (milli in, 0..255
\* out); the cast of a NaN is whatever the platform's conversion gives
ToUint8(v, nanByte) == IF v = NaN THEN nanByte ELSE Clip(v, 0, 255000) \div 1000

\* blur_radius = size * 0.008 if effervescence < 0.3 else size * 0.004
\* (milli pixels)
BlurRadius(s, eff) == IF eff < 300 THEN s * 8 ELSE s * 4

\* The probes ordered by radius.  The blur mixes a pixel with the pixels
\* around it; on the probe lattice the pixels around a probe are the
\* probes next to it in radius.
RECURSIVE OrderByRadius(_, _)
OrderByRadius(S, tt) ==
    IF S = {} THEN <<>>
    ELSE LET key(p) == tt[p] * 4096 + p[1]
             first == CHOOSE p \in S : \A q \in S : key(p) <= key(q)
         IN <<first>> \o OrderByRadius(S \ {first}, tt)

\* ImageFilter.GaussianBlur(radius) on the 8-bit image: each probe becomes
\* the weighted mean of itself and its two neighbours, the centre weight
\* growing as the radius shrinks (1-2-1 for 0.008 * size, 1-6-1 for
\* 0.004 * size); the image edge is extended.
GaussianBlur(img8, tt, s, radius) ==
    LET order == OrderByRadius(DOMAIN img8, tt)
        n == Len(order)
        mid == IF radius >= s * 8 THEN 2 ELSE 6
        at(i) == img8[order[Clip(i, 1, n)]]
    IN [p \in DOMAIN img8 |->
          LET i == IndexOf(order, p)
              mix(ch) == (at(i - 1)[ch] + mid * at(i)[ch] + at(i + 1)[ch])
                             \div (mid + 2)
          IN <<mix(1), mix(2), mix(3)>>]

\* lines 610-614: clip, 8-bit image, blur, back to float
Blur(c, nanByte) ==
    LET cast(v) == ToUint8(v, nanByte)
        img8 == [p \in DOMAIN c.wine |-> Map3(cast, c.wine[p])]
        eff == c.par["effervescence"]
        out == GaussianBlur(img8, c.t, c.size, BlurRadius(c.size, eff))
    IN [c EXCEPT !.wine = [p \in DOMAIN out |-> Milli3(out[p])],
                 !.blur_radius = BlurRadius(c.size, eff), !.pc = "rim"]

\* the weight rising across the whole band from 0.85 to 1
OuterBlendToOne(t) == Clip(((t - 850) * 1000) \div 150, 0, 1000)

\* outer_blend = clip((t - 0.85) / 0.08, 0, 1)
OuterBlend(t) == Clip(((t - 850) * 1000) \div 80, 0, 1000)

\* clean_outer = clip(base_rgb * (1.05 + 0.02 * clip(t, 0, 1) ** 0.5), 0, 255)
CleanOuter(rgb, t) ==
    LET ob == 1050 + MulM(20, FPow(Clip(t, 0, 1000), 5))
        f(v) == Clip(MulM(v * 1000, ob), 0, 255000)
    IN Map3(f, rgb)

\* if not is_red_wine and not is_rose
RepairsRim(fam) == ~fam.is_red_wine /\ ~fam.is_rose

\* the rim repair handing the canvas to the sugar bar, no mask applied
RimRepairThenBar(c) ==
    LET wine == IF RepairsRim(c.fam)
                THEN [p \in DOMAIN c.wine |->
                         Blend3(c.wine[p], CleanOuter(c.base_rgb, c.t[p]),
                                OuterBlend(c.t[p]))]
                ELSE c.wine
    IN [c EXCEPT !.wine = wine, !.pc = "bar"]

\* lines 617-622
RimRepair(c) ==
    LET wine == IF RepairsRim(c.fam)
                THEN [p \in DOMAIN c.wine |->
                         Blend3(c.wine[p], CleanOuter(c.base_rgb, c.t[p]),
                                OuterBlend(c.t[p]))]
                ELSE c.wine
    IN [c EXCEPT !.wine = wine, !.pc = "mask"]

bg_color == <<252, 252, 254>>

\* the mask with edge_end = 1.20
CircleAlphaWideEdge(t) == FPow(Clip(((1200 - t) * 1000) \div 300, 0, 1000), 6)

\* circle_alpha = clip((1.08 - t) / (1.08 - 0.90), 0, 1) ** 0.6
CircleAlpha(t) == FPow(Clip(((1080 - t) * 1000) \div 180, 0, 1000), 6)

\* img = bg_color * (1 - circle_alpha) + wine * circle_alpha, as 8-bit
MaskPixel(px, t) ==
    LET a == CircleAlpha(t)
        m == <<FAdd(FMul(bg_color[1] * 1000, 1000 - a), FMul(px[1], a)),
               FAdd(FMul(bg_color[2] * 1000, 1000 - a), FMul(px[2], a)),
               FAdd(FMul(bg_color[3] * 1000, 1000 - a), FMul(px[3], a))>>
    IN m

\* lines 625-633: the masked canvas as the PIL image pil
Mask(c, nanByte) ==
    LET cast(v) == ToUint8(v, nanByte)
        px == [p \in DOMAIN c.wine |->
                  Map3(cast, MaskPixel(c.wine[p], c.t[p]))]
    IN [c EXCEPT !.pil = [w |-> c.size, h |-> c.size, px |-> px],
                 !.pc = "bar"]

-----------------------------------------------------------------------------
(* The residual-sugar bar *)

SugarKnots ==
    <<1, 2, 3, 4, 5, 7, 9, 12, 16, 20, 30, 50, 75, 100, 150, 200, 300, 400, 500>>
\* log10(k) / log10(500) at the knots (milli)
SugarRatioAt ==
    <<0, 112, 177, 223, 259, 313, 354, 400, 446, 482, 547, 629, 695, 741, 806,
      853, 918, 964, 1000>>

\* math.log10(clamped) / math.log10(max_sugar) for clamped in [1, 500]
\* (milli g/L), linear between the knots
LogRatio(clamped) ==
    LET i == CHOOSE j \in 1..Len(SugarKnots) - 1 :
                 /\ SugarKnots[j] * 1000 <= clamped
                 /\ \/ clamped < SugarKnots[j + 1] * 1000
                    \/ j = Len(SugarKnots) - 1
        x0 == SugarKnots[i] * 1000
        x1 == SugarKnots[i + 1] * 1000
    IN SugarRatioAt[i]
       + ((SugarRatioAt[i + 1] - SugarRatioAt[i]) * ((clamped - x0) \div 10))
             \div ((x1 - x0) \div 10)

\* the fill ratio on a linear scale, clamped / max_sugar
BarHeightRatioLinear(residual_sugar) ==
    IF residual_sugar <= 0 THEN 0
    ELSE LET clamped == Max(1000, Min(residual_sugar, 500000))
         IN Min(1000, Max(0, clamped \div 500))

\* bar_height_ratio (lines 43-52)
BarHeightRatio(residual_sugar) ==
    IF residual_sugar <= 0 THEN 0
    ELSE LET clamped == Max(1000, Min(residual_sugar, 500000))
         IN Min(1000, Max(0, LogRatio(clamped)))

\* the bar's width without its minimum of 30 px
BarWidthNoMinimum(w) == (w * 5) \div 100

\* bar_width = max(int(w * 0.05), 30)
BarWidth(w) == Max((w * 5) \div 100, 30)

\* the decimal digits of int(residual_sugar)
RECURSIVE Digits(_)
Digits(n) ==
    IF n < 10 THEN <<HexDigits[n + 1]>>
    ELSE Digits(n \div 10) \o <<HexDigits[(n % 10) + 1]>>

\* sugar_text = f"{int(residual_sugar)} gr RZ"
SugarText(residual_sugar) ==
    Digits(IntTrunc(residual_sugar, 1000)) \o <<" ", "g", "r", " ", "R", "Z">>

\* the pixel height of the rotated label: the text's width in the font of
\* size max(int(bar_width * 0.5), 12), taken as 0.6 of the size per
\* character, plus the 10 px margin of text_img
LabelHeight(text, bar_width) ==
    (Len(text) * Max(bar_width \div 2, 12) * 6) \div 10 + 10

\* probe pixels of the bar: its first and last column, at the rows around
\* the top of the fill and at the top and bottom of the image
BarProbes(w, h, bar_width, bar_height) ==
    {<<x, y>> : x \in {w, w + bar_width - 1},
                y \in {0, h - bar_height - 1, h - bar_height,
                       h - bar_height + 1, h - 1} \cap (0..h - 1)}

\* draw.rectangle([x1, y1, x2, y2], fill): both corners are inside
InRect(p, x1, y1, x2, y2) == x1 <= p[1] /\ p[1] <= x2 /\ y1 <= p[2] /\ p[2] <= y2

\* draw_residual_sugar_bar(img, residual_sugar): the new image, whether
\* the label was pasted, and the bar_height_ratio and bar_height it used
draw_residual_sugar_bar(img, residual_sugar) ==
    IF residual_sugar < 0
    THEN [img |-> img, label |-> <<>>, bar_height_ratio |-> 0, bar_height |-> 0]
    ELSE
    LET w == img.w
        h == img.h
        bar_width == BarWidth(w)
        new_w == w + bar_width
        bar_height == IntTrunc(h * BarHeightRatio(residual_sugar), 1000)
        bar_y1 == h - bar_height
        text == SugarText(residual_sugar)
        pasted(p) == IF p \in DOMAIN img.px THEN img.px[p] ELSE bg_color
        magenta(p) == bar_height > 0 /\ InRect(p, w, bar_y1, new_w, h)
        gray(p) == bar_y1 > 0 /\ InRect(p, w, 0, new_w, bar_y1)
        px == [p \in DOMAIN img.px \cup BarProbes(w, h, bar_width, bar_height) |->
                 IF gray(p) THEN <<200, 200, 200>>
                 ELSE IF magenta(p) THEN <<240, 62, 107>>
                 ELSE pasted(p)]
    IN [img |-> [w |-> new_w, h |-> h, px |-> px],
        label |-> IF bar_height > LabelHeight(text, bar_width) + 10
                  THEN text ELSE <<>>,
        bar_height_ratio |-> BarHeightRatio(residual_sugar),
        bar_height |-> bar_height]

\* if residual_sugar > 0: pil = draw_residual_sugar_bar(pil, residual_sugar)
HasBar(residual_sugar) == residual_sugar > 0

\* lines 636-637
SugarBar(c) ==
    LET sugar == c.par["residual_sugar"]
        r == draw_residual_sugar_bar(c.pil, sugar)
    IN IF HasBar(sugar)
       THEN [c EXCEPT !.pil = r.img, !.label = r.label,
                      !.bar_height_ratio = r.bar_height_ratio,
                      !.bar_height = r.bar_height, !.pc = "encode"]
       ELSE [c EXCEPT !.pc = "encode"]

\* lines 639-641: pil.save(buffer, format="PNG"); the PNG holds the image's
\* size and every pixel
Encode(c) == [c EXCEPT !.out = [format |-> "PNG", image |-> c.pil], !.pc = "done"]

-----------------------------------------------------------------------------
(* A render call: generate_wine_png_bytes(viz, size) *)

Threads == {1, 2}

NoImage == [w |-> 0, h |-> 0, px |-> <<>>]
NoFamily == [is_red_wine |-> FALSE, is_rose |-> FALSE]

\* the locals of a call before its first statement
Fresh(viz, size) ==
    [pc |-> "parse", viz |-> viz, size |-> size, t |-> <<>>,
     angles |-> <<>>, rng |-> 0,
     base_rgb |-> <<0, 0, 0>>, par |-> <<>>, fam |-> NoFamily,
     wine |-> <<>>, ring |-> 0, drawn |-> <<>>, dots |-> <<>>,
     marks |-> <<>>, tried |-> 0, blur_radius |-> 0, pil |-> NoImage,
     label |-> <<>>, bar_height_ratio |-> 0, bar_height |-> 0,
     out |-> [format |-> "", image |-> NoImage],
     err |-> "", nth |-> 0,
     fn |-> "generate_wine_png_bytes", given |-> size, out_path |-> ""]

Idle == [Fresh(<<>>, 0) EXCEPT !.pc = "idle"]

\* a generator seeded by the number of calls made before
CallCountSeededGenerator(c) == default_rng(42 + c.nth)

\* rng = np.random.default_rng(42): the generator a call creates for itself
CallGenerator(c) == default_rng(42)

\* lines 419-474: base colour, geometry, generator, scalars, family.  An exception
\* of hex_to_rgb leaves the function.
Parse(c) ==
    LET col == BaseColor(c.viz)
    IN IF col.err # ""
       THEN [c EXCEPT !.pc = "raised", !.err = col.err]
       ELSE [c EXCEPT !.base_rgb = col.rgb,
                      !.t = [p \in Probes(c.size) |-> TOf(p, c.size)],
                      !.angles = [p \in Probes(c.size) |-> AngleOf(p, c.size)],
                      !.rng = CallGenerator(c),
                      !.par = Scalars(c.viz), !.fam = Family(c.viz, col.rgb),
                      !.pc = "base"]

\* the locals of thread th with one generator for all threads
SharedGenerator(calls, th) == [calls[th] EXCEPT !.rng = calls[1].rng]

\* the locals a stage of thread th works on: its own
LocalsOf(calls, th) == calls[th]

\* the stage at which a call stands, applied to its locals
StageResult(c, nanByte) ==
    CASE c.pc = "parse"    -> Parse(c)
      [] c.pc = "base"     -> BaseLayer(c)
      [] c.pc = "rings"    -> RingStep(c)
      [] c.pc = "dots"     -> Dots(c)
      [] c.pc = "sparkles" -> Sparkles(c)
      [] c.pc = "blur"     -> Blur(c, nanByte)
      [] c.pc = "rim"      -> RimRepair(c)
      [] c.pc = "mask"     -> Mask(c, nanByte)
      [] c.pc = "bar"      -> SugarBar(c)
      [] c.pc = "encode"   -> Encode(c)

RECURSIVE RunToEnd(_, _)
\* a call run without interruption from where it stands
RunToEnd(c, nanByte) ==
    IF c.pc \in {"idle", "done", "raised"} THEN c
    ELSE RunToEnd(StageResult(c, nanByte), nanByte)

\* the whole function on its arguments
Render(viz, size, nanByte) == RunToEnd(Fresh(viz, size), nanByte)

\* an argument left out of a call
NoArg == 0 - 1
NoPath == ""

\* the file system: what has been written at which path
NoFiles == [path \in {} |-> [format |-> "", image |-> NoImage]]

\* def generate_wine_png_bytes(viz, size=512): the locals at entry
BytesEntry(viz, size) ==
    [Fresh(viz, IF size = NoArg THEN 512 ELSE size) EXCEPT !.given = size]

\* def generate_wine_png(viz, size=1024, out_path="wine_test.png"): the
\* locals at entry
FileEntry(viz, size, out_path) ==
    [Fresh(viz, IF size = NoArg THEN 1024 ELSE size) EXCEPT
        !.fn = "generate_wine_png", !.given = size,
        !.out_path = IF out_path = NoPath THEN "wine_test.png" ELSE out_path]

\* generate_wine_png without the repair of the outer rim
FileStageResultNoRepair(c, nanByte) ==
    CASE c.pc = "parse"    -> Parse(c)
      [] c.pc = "base"     -> BaseLayer(c)
      [] c.pc = "rings"    -> RingStep(c)
      [] c.pc = "dots"     -> Dots(c)
      [] c.pc = "sparkles" -> Sparkles(c)
      [] c.pc = "blur"     -> Blur(c, nanByte)
      [] c.pc = "rim"      -> [c EXCEPT !.pc = "mask"]
      [] c.pc = "mask"     -> Mask(c, nanByte)
      [] c.pc = "bar"      -> SugarBar(c)

\* generate_wine_png, lines 124-395: the stage at which a call of the file
\* variant stands, applied to its locals
FileStageResult(c, nanByte) ==
    CASE c.pc = "parse"    -> Parse(c)
      [] c.pc = "base"     -> BaseLayer(c)
      [] c.pc = "rings"    -> RingStep(c)
      [] c.pc = "dots"     -> Dots(c)
      [] c.pc = "sparkles" -> Sparkles(c)
      [] c.pc = "blur"     -> Blur(c, nanByte)
      [] c.pc = "rim"      -> RimRepair(c)
      [] c.pc = "mask"     -> Mask(c, nanByte)
      [] c.pc = "bar"      -> SugarBar(c)

\* lines 397-399: Path(out_path).parent.mkdir(...); pil.save(out_path,
\* format="PNG"): the file system with the PNG at out_path, an earlier file
\* of that path replaced
SavePng(fs, c) == (c.out_path :> [format |-> "PNG", image |-> c.pil]) @@ fs

-----------------------------------------------------------------------------
(* Attribute records *)

\* {}
EmptyViz == [k \in {} |-> NoneCell]

\* viz with one more key
With(viz, key, cell) ==
    [k \in DOMAIN viz \cup {key} |-> IF k = key THEN cell ELSE viz[k]]

\* example_viz of main()
ExampleViz ==
    With(With(With(With(With(With(With(With(With(With(With(With(With(EmptyViz,
        "base_color_hex", Str(DefaultHex)),
        "acidity", Num(700)), "body", Num(400)), "depth", Num(600)),
        "oak_intensity", Num(300)), "mineral_intensity", Num(400)),
        "herbal_intensity", Num(300)), "spice_intensity", Num(200)),
        "fruit_citrus", Num(500)), "fruit_stone", Num(400)),
        "fruit_tropical", Num(600)), "fruit_red", Num(0)),
        "fruit_dark", Num(0))

-----------------------------------------------------------------------------
(* Inputs *)

HexDefault == <<"#", "F", "6", "F", "2", "A", "F">>
HexRed == <<"#", "8", "B", "1", "A", "1", "A">>
HexGrey == <<"#", "8", "0", "8", "0", "8", "0">>
HexDarkGrey == <<"#", "7", "F", "7", "F", "8", "0">>
HexRose == <<"#", "D", "C", "7", "8", "8", "2">>
HexRoseEdgeR == <<"#", "B", "4", "9", "6", "9", "6">>
HexRoseEdgeG == <<"#", "E", "6", "A", "0", "8", "C">>
HexRoseTop == <<"#", "E", "B", "9", "6", "9", "6">>
HexPale == <<"#", "E", "C", "9", "6", "9", "6">>
HexLower == <<"#", "f", "6", "f", "2", "a", "f">>
HexNoHash == <<"8", "B", "1", "A", "1", "A">>
HexSpaced == <<" ", "#", "8", "B", "1", "A", "1", "A", " ">>
HexTwoHash == <<"#", "#", "8", "B", "1", "A", "1", "A">>
HexNotHex == <<"#", "G", "G", "G", "G", "G", "G">>
HexWord == <<"y", "e", "l", "l", "o", "w">>
HexShort == <<"#", "F", "F", "F">>
HexLong == <<"#", "1", "2", "F", "6", "F", "2", "A", "F">>
HexFive == <<"#", "6", "F", "2", "A", "F">>
HexOnlyHash == <<"#">>
HexBlank == <<" ">>

\* well-formed colours: "#" and six hex digits, possibly without the "#",
\* in lower case or with blanks around
GoodHex ==
    {HexDefault, HexRed, HexGrey, HexDarkGrey, HexRose, HexRoseEdgeR,
     HexRoseEdgeG, HexRoseTop, HexPale, HexLower, HexNoHash, HexSpaced,
     HexTwoHash}

\* strings that are not hexadecimal
NonHex == {HexNotHex, HexWord, HexOnlyHash, HexBlank}

\* hexadecimal strings that do not have six digits
WrongLength == {HexShort, HexLong, HexFive}

\* values of wine_type: the three the renderer names, auto, and the other
\* values of WINE_TYPES
T_rose_accent == <<"r", "o", "s", "é">>
T_sparkling == <<"s", "p", "a", "r", "k", "l", "i", "n", "g">>

WineTypeCells ==
    {Str(T_red), Str(T_rose), Str(T_white), Str(T_auto), Str(T_rose_accent),
     Str(T_sparkling), NoneCell}

RedViz == With(With(EmptyViz, "base_color_hex", Str(HexRed)), "wine_type", Str(T_red))
RoseViz == With(With(EmptyViz, "base_color_hex", Str(HexRose)), "wine_type", Str(T_rose))

\* numbers given as text, and text that is no number
TextHalf == <<"0", ".", "5">>
TextOne == <<" ", "1", " ">>
TextWord == <<"a", "b", "c">>
TextComma == <<"0", ",", "5">>

NumericCells ==
    {Num(0), Num(199), Num(200), Num(500), Num(1000), Num(1500), Num(0 - 500),
     Str(TextHalf), Str(TextOne)}

\* None and the values float() refuses
UnusableCells == {NoneCell, Str(TextWord), Str(TextComma), Str(<<>>), ListCell}

SugarCells ==
    {Num(0), Num(0 - 1000), Num(500), Num(1000), Num(4000), Num(50000),
     Num(500000), Num(600000), Str(TextWord), NoneCell}

Sizes == {16, 17, 100, 599, 600, 620, 640}

FieldSet == {ScalarFields[i] : i \in 1..Len(ScalarFields)}

\* records that differ from a base record in one scalar field
ScalarInputs ==
    {[viz |-> With(base, f, cell), size |-> 32] :
        base \in {EmptyViz, RedViz, RoseViz}, f \in FieldSet,
        cell \in NumericCells \cup UnusableCells}
    \cup {[viz |-> With(EmptyViz, "effervescence", Num(e)), size |-> s] :
            e \in {100, 101}, s \in {12, 32}}

\* canvas sizes and residual sugars
SizeInputs ==
    {[viz |-> With(EmptyViz, "residual_sugar", cell), size |-> s] :
        s \in Sizes, cell \in SugarCells}
    \cup {[viz |-> base, size |-> s] :
            s \in Sizes, base \in {EmptyViz, ExampleViz}}

\* base colours and wine types
FamilyInputs ==
    {[viz |-> With(With(EmptyViz, "base_color_hex", Str(col)), "wine_type", wt),
      size |-> 16] :
        col \in GoodHex \cup NonHex \cup WrongLength, wt \in WineTypeCells}
    \cup {[viz |-> With(EmptyViz, "base_color_hex", Str(col)), size |-> 16] :
            col \in GoodHex \cup NonHex \cup WrongLength}
    \cup {[viz |-> With(EmptyViz, "base_color_hex", cell), size |-> 16] :
            cell \in {NoneCell, Str(<<>>), ListCell, Num(0)}}
    \cup {[viz |-> EmptyViz, size |-> 16]}

-----------------------------------------------------------------------------
(* VizProfile and its clamp() (models.py), and the VizProfile of app.py *)

\* the fields clamp() assigns c(...) to, in its order (lines 103-119)
ClampedFields ==
    {"acidity", "body", "tannin", "depth", "sweetness", "oak_intensity",
     "mineral_intensity", "herbal_intensity", "spice_intensity",
     "fruit_citrus", "fruit_stone", "fruit_tropical", "fruit_red",
     "fruit_dark", "effervescence", "bubbles_intensity",
     "age_aromas_intensity"}

\* VizProfile(): the float fields and bubbles with their defaults
VizProfile ==
    [acidity |-> 500, body |-> 500, tannin |-> 200, depth |-> 400,
     sweetness |-> 100, oak_intensity |-> 0, mineral_intensity |-> 300,
     herbal_intensity |-> 0, spice_intensity |-> 0, fruit_citrus |-> 0,
     fruit_stone |-> 0, fruit_tropical |-> 0, fruit_red |-> 0,
     fruit_dark |-> 0, effervescence |-> 0, bubbles |-> FALSE,
     bubbles_intensity |-> 0, mineral |-> 0, age_aromas_intensity |-> 0,
     ripe_aromas |-> 0]

\* c(v) = max(0.0, min(1.0, float(v)))
ClampC(v) == Max(0, Min(1000, v))

\* clamp() with the legacy fields copied as they are, without c(...)
clampSyncUnclamped(self) ==
    LET a == [f \in DOMAIN self |->
                IF f \in ClampedFields THEN ClampC(self[f]) ELSE self[f]]
        b == IF a.mineral > 0 /\ a.mineral_intensity = 0
             THEN [a EXCEPT !.mineral_intensity = a.mineral] ELSE a
        c == IF b.bubbles_intensity > 0 /\ b.effervescence = 0
             THEN [b EXCEPT !.effervescence = b.bubbles_intensity] ELSE b
    IN IF c.bubbles /\ c.effervescence = 0
       THEN [c EXCEPT !.effervescence = 700] ELSE c

\* VizProfile.clamp(): the seventeen assignments, then the legacy sync
clamp(self) ==
    LET a == [f \in DOMAIN self |->
                IF f \in ClampedFields THEN ClampC(self[f]) ELSE self[f]]
        b == IF a.mineral > 0 /\ a.mineral_intensity = 0
             THEN [a EXCEPT !.mineral_intensity = ClampC(a.mineral)] ELSE a
        c == IF b.bubbles_intensity > 0 /\ b.effervescence = 0
             THEN [b EXCEPT !.effervescence = ClampC(b.bubbles_intensity)]
             ELSE b
    IN IF c.bubbles /\ c.effervescence = 0
       THEN [c EXCEPT !.effervescence = 700] ELSE c

\* app.py: VizProfile(), and its clamp() over all eight float fields
AppVizProfile ==
    [acidity |-> 400, body |-> 400, tannin |-> 200, depth |-> 400,
     sweetness |-> 100, oak |-> 100, bubbles |-> FALSE, mineral |-> 200,
     ripe_aromas |-> 200]

app_clamp(self) ==
    [f \in DOMAIN self |->
        IF f = "bubbles" THEN self[f] ELSE ClampC(self[f])]

NoProfile == [cls |-> "none", obj |-> <<>>, before |-> <<>>, clamps |-> 0]

\* values below, inside and above [0, 1]
FloatInputs == {0 - 500, 0, 300, 1500}

\* profiles of models.py: the fields of the legacy sync varied together,
\* every other float field on its own
ProfileInputs ==
    {[VizProfile EXCEPT !.mineral = m, !.mineral_intensity = mi,
                        !.bubbles_intensity = bi, !.effervescence = e,
                        !.bubbles = b] :
        m \in FloatInputs, mi \in FloatInputs, bi \in FloatInputs,
        e \in FloatInputs, b \in BOOLEAN}
    \cup {[VizProfile EXCEPT ![f] = v] :
            f \in (DOMAIN VizProfile) \ {"bubbles"}, v \in FloatInputs}

\* profiles of app.py: one float field varied
AppProfileInputs ==
    {[AppVizProfile EXCEPT ![f] = v] :
        f \in (DOMAIN AppVizProfile) \ {"bubbles"}, v \in FloatInputs}

-----------------------------------------------------------------------------
(* The wine cache (cache.py): Python values, JSON text, the table *)

\* an argument or a returned value: None, or a value (a text as its
\* characters, a dict as its items in insertion order)
PyNone == [none |-> TRUE, val |-> <<>>]
Py(v) == [none |-> FALSE, val |-> v]

\* bool(x): None, "" and {} are falsy
Truthy(x) == ~x.none /\ x.val # <<>>

\* a column value: NULL, or a text
SqlNull == [null |-> TRUE, text |-> <<>>]
SqlText(t) == [null |-> FALSE, text |-> t]

\* a Python argument bound to a "?" of a statement, and a column read back
ToSql(x) == IF x.none THEN SqlNull ELSE SqlText(x.val)
FromSql(col) == IF col.null THEN PyNone ELSE Py(col.text)

UpperCase ==
    <<"A", "B", "C", "D", "E", "F", "G", "H", "I", "J", "K", "L", "M",
      "N", "O", "P", "Q", "R", "S", "T", "U", "V", "W", "X", "Y", "Z">>
LowerCase ==
    <<"a", "b", "c", "d", "e", "f", "g", "h", "i", "j", "k", "l", "m",
      "n", "o", "p", "q", "r", "s", "t", "u", "v", "w", "x", "y", "z">>

\* str.lower() on one character
LowerChar(ch) ==
    IF \E i \in 1..26 : UpperCase[i] = ch
    THEN LowerCase[CHOOSE i \in 1..26 : UpperCase[i] = ch]
    ELSE ch

\* str.lower()
Lower(t) == [i \in 1..Len(t) |-> LowerChar(t[i])]

\* the characters str.strip() and str.split() take as whitespace
Whitespace == {" ", "\t", "\n"}

RECURSIVE Split(_)
\* str.split(): the words between runs of whitespace
Split(t) ==
    LET s == LStrip(t, Whitespace)
        stops == {i \in 1..Len(s) : s[i] \in Whitespace}
        end == IF stops = {} THEN Len(s) + 1
               ELSE CHOOSE i \in stops : \A j \in stops : i <= j
    IN IF s = <<>> THEN <<>>
       ELSE <<SubSeq(s, 1, end - 1)>> \o Split(SubSeq(s, end, Len(s)))

RECURSIVE Join(_, _)
\* sep.join(words)
Join(sep, words) ==
    IF words = <<>> THEN <<>>
    ELSE IF Len(words) = 1 THEN words[1]
    ELSE words[1] \o sep \o Join(sep, Tail(words))

\* the name normalised without lower()
_normalize_nameCaseKept(wine_name) ==
    Join(<<" ">>, Split(RStrip(LStrip(wine_name, Whitespace), Whitespace)))

\* " ".join(wine_name.lower().strip().split())
_normalize_name(wine_name) ==
    Join(<<" ">>, Split(RStrip(LStrip(Lower(wine_name), Whitespace), Whitespace)))

\* repr of a float (milli): sign, integer digits, ".", the fraction's digits
\* without trailing zeros
FloatRepr(n) ==
    LET a == Abs(n)
        f == a % 1000
        d == <<HexDigits[(f \div 100) + 1], HexDigits[((f \div 10) % 10) + 1],
               HexDigits[(f % 10) + 1]>>
        frac == IF RStrip(d, {"0"}) = <<>> THEN <<"0">> ELSE RStrip(d, {"0"})
    IN (IF n < 0 THEN <<"-">> ELSE <<>>) \o Digits(a \div 1000) \o <<".">> \o frac

\* the four hex digits of a character json.dumps writes as \uXXXX
EscapeCode(ch) ==
    CASE ch = "ä" -> <<"0", "0", "e", "4">>
      [] ch = "é" -> <<"0", "0", "e", "9">>
      [] OTHER -> <<>>

\* one character inside a JSON string (ensure_ascii=True)
JsonChar(ch) ==
    IF ch \in {"\"", "\\"} THEN <<"\\", ch>>
    ELSE IF EscapeCode(ch) # <<>> THEN <<"\\", "u">> \o EscapeCode(ch)
    ELSE <<ch>>

RECURSIVE JsonChars(_)
JsonChars(t) == IF t = <<>> THEN <<>> ELSE JsonChar(Head(t)) \o JsonChars(Tail(t))

\* a str as JSON
JsonString(t) == <<"\"">> \o JsonChars(t) \o <<"\"">>

\* a float or a str as JSON
JsonValue(v) == IF v.kind = "num" THEN FloatRepr(v.num) ELSE JsonString(v.text)

RECURSIVE JsonMembers(_)
\* the items of a dict, ", " between items and ": " after the key
JsonMembers(obj) ==
    IF obj = <<>> THEN <<>>
    ELSE JsonString(obj[1].k) \o <<":", " ">> \o JsonValue(obj[1].v)
         \o (IF Len(obj) > 1 THEN <<",", " ">> ELSE <<>>)
         \o JsonMembers(Tail(obj))

\* json.dumps(obj) for a dict of str keys to floats and strs
dumps(obj) == <<"{">> \o JsonMembers(obj) \o <<"}">>

RECURSIVE SkipWs(_, _)
\* the index of the first character at or after i that is no whitespace
SkipWs(s, i) ==
    IF i <= Len(s) /\ s[i] \in Whitespace THEN SkipWs(s, i + 1) ELSE i

\* a scan that failed: json.JSONDecodeError
ScanError == [ok |-> FALSE, val |-> <<>>, next |-> 0]

\* the character written as \uXXXX
Unescape(code) ==
    CASE 16 * HexVal(code[3]) + HexVal(code[4]) = 228 -> "ä"
      [] 16 * HexVal(code[3]) + HexVal(code[4]) = 233 -> "é"
      [] OTHER -> "?"

RECURSIVE ScanString(_, _, _)
\* the string whose opening quote stands before index i: its characters and
\* the index after its closing quote
ScanString(s, i, acc) ==
    IF i > Len(s) THEN ScanError
    ELSE IF s[i] = "\"" THEN [ok |-> TRUE, val |-> acc, next |-> i + 1]
    ELSE IF s[i] # "\\" THEN ScanString(s, i + 1, Append(acc, s[i]))
    ELSE IF i + 1 > Len(s) THEN ScanError
    ELSE IF s[i + 1] \in {"\"", "\\", "/"}
         THEN ScanString(s, i + 2, Append(acc, s[i + 1]))
    ELSE IF /\ s[i + 1] = "u"
            /\ i + 5 <= Len(s)
            /\ \A j \in (i + 2)..(i + 5) : IsHexDigit(s[j])
         THEN ScanString(s, i + 6, Append(acc, Unescape(SubSeq(s, i + 2, i + 5))))
    ELSE ScanError

RECURSIVE NumberEnd(_, _)
\* the index after the numeral that starts at i
NumberEnd(s, i) ==
    IF i <= Len(s) /\ (IsDigit(s[i]) \/ s[i] \in {"-", "."})
    THEN NumberEnd(s, i + 1) ELSE i

\* the value scanned as a string, and the one scanned as a numeral
StringValue(r) ==
    IF r.ok THEN [ok |-> TRUE, val |-> Str(r.val), next |-> r.next]
    ELSE ScanError
NumberValue(r, end) ==
    IF r.err = "" THEN [ok |-> TRUE, val |-> Num(r.val), next |-> end]
    ELSE ScanError
NumeralAt(s, i, end) ==
    IF end > i THEN NumberValue(ParseFloat(SubSeq(s, i, end - 1)), end)
    ELSE ScanError

\* a JSON value at i: a string, or a numeral given to float()
ScanValue(s, i) ==
    IF i > Len(s) THEN ScanError
    ELSE IF s[i] = "\"" THEN StringValue(ScanString(s, i + 1, <<>>))
    ELSE NumeralAt(s, i, NumberEnd(s, i))

RECURSIVE ScanMembers(_, _, _)
\* after an item: "," and the next item, or "}"
MemberEnd(s, e, items) ==
    IF e > Len(s) THEN ScanError
    ELSE IF s[e] = "," THEN ScanMembers(s, e + 1, items)
    ELSE IF s[e] = "}" THEN [ok |-> TRUE, val |-> items, next |-> e + 1]
    ELSE ScanError

\* the item's value v after its key
MemberValue(s, key, v, acc) ==
    IF ~v.ok THEN ScanError
    ELSE MemberEnd(s, SkipWs(s, v.next), Append(acc, [k |-> key, v |-> v.val]))

\* the ":" at c after the key
MemberColon(s, key, c, acc) ==
    IF c > Len(s) \/ s[c] # ":" THEN ScanError
    ELSE MemberValue(s, key, ScanValue(s, SkipWs(s, c + 1)), acc)

\* the key scanned
MemberKey(s, key, acc) ==
    IF ~key.ok THEN ScanError
    ELSE MemberColon(s, key.val, SkipWs(s, key.next), acc)

\* the quote at a that opens a key
MemberStart(s, a, acc) ==
    IF a > Len(s) \/ s[a] # "\"" THEN ScanError
    ELSE MemberKey(s, ScanString(s, a + 1, <<>>), acc)

\* the items of an object from the key at or after i up to its "}"
ScanMembers(s, i, acc) == MemberStart(s, SkipWs(s, i), acc)

\* the object's text after "{" at a, b being the next character's index
ObjectBody(text, a, b) ==
    IF b <= Len(text) /\ text[b] = "}"
    THEN [ok |-> TRUE, val |-> <<>>, next |-> b + 1]
    ELSE ScanMembers(text, a + 1, <<>>)

ObjectAt(text, a) ==
    IF a > Len(text) \/ text[a] # "{" THEN ScanError
    ELSE ObjectBody(text, a, SkipWs(text, a + 1))

\* nothing but whitespace may follow the object
WholeText(text, r) ==
    IF r.ok /\ SkipWs(text, r.next) = Len(text) + 1
    THEN [err |-> "", val |-> r.val]
    ELSE [err |-> "JSONDecodeError", val |-> <<>>]

\* json.loads(text) for an object: the dict, or json.JSONDecodeError
loads(text) == WholeText(text, ObjectAt(text, SkipWs(text, 1)))

\* the table wine_cache after init_db() on a new file: no rows, no id given
\* out; clock is the time datetime.now() last showed
EmptyDb == [rows |-> {}, seq |-> 0, clock |-> 0]

\* the statement with ON CONFLICT(wine_name)
UpsertOnRawName(d, new) ==
    LET hit == {r \in d.rows : r.wine_name = new.wine_name}
    IN IF hit = {}
       THEN [d EXCEPT !.rows = @ \cup {[new EXCEPT !.id = d.seq + 1]},
                      !.seq = @ + 1]
       ELSE [d EXCEPT !.rows = (@ \ hit) \cup
                {[r EXCEPT !.viz_profile = new.viz_profile,
                           !.combined_summary = new.combined_summary,
                           !.props = new.props,
                           !.hex_color = new.hex_color,
                           !.updated_at = new.updated_at] : r \in hit}]

\* the update keeping a column whose new value is NULL
UpsertKeepingOnNull(d, new) ==
    LET hit == {r \in d.rows : r.wine_name_normalized = new.wine_name_normalized}
        coalesce(a, b) == IF a.null THEN b ELSE a
    IN IF hit = {}
       THEN [d EXCEPT !.rows = @ \cup {[new EXCEPT !.id = d.seq + 1]},
                      !.seq = @ + 1]
       ELSE [d EXCEPT !.rows = (@ \ hit) \cup
                {[r EXCEPT !.viz_profile = coalesce(new.viz_profile, r.viz_profile),
                           !.combined_summary =
                               coalesce(new.combined_summary, r.combined_summary),
                           !.props = coalesce(new.props, r.props),
                           !.hex_color = coalesce(new.hex_color, r.hex_color),
                           !.updated_at = new.updated_at] : r \in hit}]

\* INSERT ... ON CONFLICT(wine_name_normalized) DO UPDATE SET viz_profile,
\* combined_summary, props, hex_color, updated_at (lines 135-150); a new row
\* takes the next id of AUTOINCREMENT
Upsert(d, new) ==
    LET hit == {r \in d.rows : r.wine_name_normalized = new.wine_name_normalized}
    IN IF hit = {}
       THEN [d EXCEPT !.rows = @ \cup {[new EXCEPT !.id = d.seq + 1]},
                      !.seq = @ + 1]
       ELSE [d EXCEPT !.rows = (@ \ hit) \cup
                {[r EXCEPT !.viz_profile = new.viz_profile,
                           !.combined_summary = new.combined_summary,
                           !.props = new.props,
                           !.hex_color = new.hex_color,
                           !.updated_at = new.updated_at] : r \in hit}]

\* save_to_cache(wine_name, viz_profile, combined_summary, props, hex_color)
save_to_cache(d, wine_name, viz_profile, combined_summary, props, hex_color) ==
    LET normalized == _normalize_name(wine_name)
        now == d.clock + 1
        viz_json == IF Truthy(viz_profile) THEN Py(dumps(viz_profile.val))
                    ELSE PyNone
        props_json == IF Truthy(props) THEN Py(dumps(props.val)) ELSE PyNone
        new == [id |-> 0, wine_name |-> wine_name,
                wine_name_normalized |-> normalized,
                viz_profile |-> ToSql(viz_json),
                combined_summary |-> ToSql(combined_summary),
                props |-> ToSql(props_json),
                hex_color |-> ToSql(hex_color),
                created_at |-> now, updated_at |-> now]
    IN Upsert([d EXCEPT !.clock = now], new)

\* get_cached_wine returned None
NoResult ==
    [none |-> TRUE, keys |-> {}, wine_name |-> <<>>, hex |-> PyNone,
     created_at |-> 0, viz |-> PyNone, combined_summary |-> PyNone,
     props |-> PyNone]

\* result["viz"] and result["props"] from what json.loads gave
VizOf(r) == IF r.err = "" THEN Py(r.val) ELSE PyNone
PropsOf(r) == IF r.err = "" THEN Py(r.val) ELSE Py(<<>>)

\* the dict built from the row fetched (lines 88-110)
ResultOf(row) ==
    LET viz_profile == FromSql(row.viz_profile)
        combined_summary == FromSql(row.combined_summary)
        props == FromSql(row.props)
    IN [none |-> FALSE,
        keys |-> {"wine_name", "hex", "created_at"}
                 \cup (IF Truthy(viz_profile) THEN {"viz"} ELSE {})
                 \cup (IF Truthy(combined_summary)
                       THEN {"combined_summary"} ELSE {})
                 \cup (IF Truthy(props) THEN {"props"} ELSE {}),
        wine_name |-> row.wine_name,
        hex |-> FromSql(row.hex_color),
        created_at |-> row.created_at,
        viz |-> IF Truthy(viz_profile) THEN VizOf(loads(viz_profile.val))
                ELSE PyNone,
        combined_summary |-> IF Truthy(combined_summary)
                             THEN combined_summary ELSE PyNone,
        props |-> IF Truthy(props) THEN PropsOf(loads(props.val))
                  ELSE PyNone]

\* get_cached_wine(wine_name): None, or the dict with its keys
get_cached_wine(d, wine_name) ==
    LET normalized == _normalize_name(wine_name)
        hit == {r \in d.rows : r.wine_name_normalized = normalized}
    IN IF hit = {} THEN NoResult
       ELSE ResultOf(CHOOSE r \in hit : TRUE)

\* clear_cache: SELECT COUNT(*) (lines 185-186)
ClearCount(d) == Cardinality(d.rows)

\* clear_cache: DELETE FROM wine_cache and the commit (lines 188-189)
ClearDelete(d) == [d EXCEPT !.rows = {}]

\* the requests that use the cache
Requesters == {1, 2}

\* a requester between two calls
NoReq ==
    [op |-> "none", pc |-> "idle", name |-> <<>>, count |-> 0,
     deleted |-> 0, result |-> NoResult]

\* wine names: two spellings of one wine, and another wine
NameAbC == <<"A", "b", " ", "C">>
NameAbCSpaced == <<" ", "a", "B", "\t", " ", "c", "\n">>
NameAbCJoined == <<"A", "b", "C">>
WineNames == {NameAbC, NameAbCSpaced, NameAbCJoined}

\* {"body": 0.5, "type": "rosé"} and {"body": 1.0, "oak": -0.5}
VizRose ==
    <<[k |-> <<"b", "o", "d", "y">>, v |-> Num(500)],
      [k |-> <<"t", "y", "p", "e">>, v |-> Str(<<"r", "o", "s", "é">>)]>>
VizFull ==
    <<[k |-> <<"b", "o", "d", "y">>, v |-> Num(1000)],
      [k |-> <<"o", "a", "k">>, v |-> Num(0 - 500)]>>

\* {"oak": 0.25} and {"note": "a\"b\\"}
PropsOak == <<[k |-> <<"o", "a", "k">>, v |-> Num(250)]>>
PropsNote ==
    <<[k |-> <<"n", "o", "t", "e">>, v |-> Str(<<"a", "\"", "b", "\\">>)]>>

\* what a save passes: everything given, everything given with other
\* values, and {} and "" with the rest omitted
Payloads ==
    {[viz |-> Py(VizRose), summary |-> Py(<<"d", "r", "y">>),
      props |-> Py(PropsOak), hex |-> Py(HexDefault)],
     [viz |-> Py(VizFull), summary |-> Py(<<"s", "o", "f", "t">>),
      props |-> Py(PropsNote), hex |-> Py(HexRed)],
     [viz |-> Py(<<>>), summary |-> Py(<<>>), props |-> PyNone,
      hex |-> PyNone]}

-----------------------------------------------------------------------------
(* WineProps and _merge_props_non_destructive (llm.py, app.py) *)

\* a value of a props dict: None, a str (its characters), an int, a bool, a
\* list (its items); Absent stands for a key the dict does not have
PAbsent == [kind |-> "absent", num |-> 0, text |-> <<>>, items |-> <<>>]
PNone == [kind |-> "none", num |-> 0, text |-> <<>>, items |-> <<>>]
PStr(t) == [kind |-> "str", num |-> 0, text |-> t, items |-> <<>>]
PInt(n) == [kind |-> "int", num |-> n, text |-> <<>>, items |-> <<>>]
PBool(b) == [kind |-> "bool", num |-> IF b THEN 1 ELSE 0, text |-> <<>>, items |-> <<>>]
PList(xs) == [kind |-> "list", num |-> 0, text |-> <<>>, items |-> xs]

\* an item of a list: a str, or an int
ItemStr(w) == [kind |-> "str", num |-> 0, s |-> w]
ItemInt(n) == [kind |-> "int", num |-> n, s |-> ""]

\* the strs that occur as list items, in the order sorted() puts them
Vocabulary == <<"7", "apple", "mineral", "riesling">>

\* str(x) of a list item
StrOf(x) == IF x.kind = "str" THEN x.s ELSE IF x.num = 7 THEN "7" ELSE "?"

RECURSIVE SortedFrom(_, _)
\* sorted(words) for a set of strs of the vocabulary, from position i on
SortedFrom(words, i) ==
    IF i > Len(Vocabulary) THEN <<>>
    ELSE (IF Vocabulary[i] \in words THEN <<ItemStr(Vocabulary[i])>> ELSE <<>>)
         \o SortedFrom(words, i + 1)

\* the fields of WineProps modelled, the str ones and the list ones
WineFields == {"vintage", "wine_type", "oak", "grapes", "tasting_notes"}
ListFields == {"grapes", "tasting_notes"}

\* is_missing(v)
is_missing(v) ==
    \/ v.kind = "none"
    \/ v.kind = "str" /\ RStrip(LStrip(v.text, Whitespace), Whitespace) = <<>>
    \/ v.kind = "list" /\ Len(v.items) = 0

\* v in (None, "", [])
IsEmptyLiteral(v) ==
    \/ v.kind = "none"
    \/ v.kind = "str" /\ v.text = <<>>
    \/ v.kind = "list" /\ v.items = <<>>

\* the loop body with the LLM's value taken whenever it is not empty
MergeKeyLlmWins(k, cur, v) ==
    IF k \in ListFields
    THEN LET base_list == IF cur.kind = "list" THEN cur.items ELSE <<>>
         IN IF v.kind = "list"
            THEN PList(SortedFrom({StrOf(base_list[i]) : i \in 1..Len(base_list)}
                                  \cup {StrOf(v.items[i]) : i \in 1..Len(v.items)}, 1))
            ELSE PList(base_list)
    ELSE IF ~IsEmptyLiteral(v) THEN v
    ELSE cur

\* the loop body for one item k, v of the LLM's dict; cur is merged.get(k)
MergeKey(k, cur, v) ==
    IF k \in ListFields
    THEN LET base_list == IF cur.kind = "list" THEN cur.items ELSE <<>>
         IN IF v.kind = "list"
            THEN PList(SortedFrom({StrOf(base_list[i]) : i \in 1..Len(base_list)}
                                  \cup {StrOf(v.items[i]) : i \in 1..Len(v.items)}, 1))
            ELSE PList(base_list)
    ELSE IF cur.kind = "none" /\ v.kind # "none" THEN v
    ELSE IF is_missing(cur) /\ ~IsEmptyLiteral(v) THEN v
    ELSE cur

\* WineProps(**merged): whether the value validates for field k (an int for
\* vintage, a str for wine_type, a bool for oak, a list of str for the lists)
Validates(k, v) ==
    CASE k = "vintage" -> v.kind \in {"none", "int"}
      [] k = "wine_type" -> v.kind \in {"none", "str"}
      [] k = "oak" -> v.kind \in {"none", "bool"}
      [] OTHER -> v.kind = "list" /\ \A i \in 1..Len(v.items) : v.items[i].kind = "str"

\* the loop of lines 420-435 and WineProps(**merged): every key of the
\* dict merged into base.model_dump()
MergeDict(base, llm_dict) ==
    LET merged == [k \in WineFields |->
                     IF llm_dict[k].kind = "absent" THEN base[k]
                     ELSE MergeKey(k, base[k], llm_dict[k])]
    IN IF \A k \in WineFields : Validates(k, merged[k])
       THEN [err |-> "", props |-> merged]
       ELSE [err |-> "ValidationError", props |-> base]

\* WineProps.model_dump(): every field, None or [] where nothing was set
model_dump(given) ==
    [k \in WineFields |->
        IF given[k].kind # "absent" THEN given[k]
        ELSE IF k \in ListFields THEN PList(<<>>) ELSE PNone]

\* llm.py: a WineProps is dumped, a dict taken as it is, anything else
\* leaves base as it is
_merge_props_non_destructive(base, llm_props) ==
    CASE llm_props.type = "WineProps" -> MergeDict(base, model_dump(llm_props.d))
      [] llm_props.type = "dict" -> MergeDict(base, llm_props.d)
      [] OTHER -> [err |-> "", props |-> base]

\* app.py: llm_props.items() of a dict; any other object has no items()
app_merge_props_non_destructive(base, llm_props) ==
    CASE llm_props.type = "dict" -> MergeDict(base, llm_props.d)
      [] llm_props.type = "WineProps" -> [err |-> "AttributeError", props |-> base]
      [] OTHER -> [err |-> "AttributeError", props |-> base]

NoMerge == [fn |-> "none", base |-> <<>>, llm |-> <<>>, err |-> "", out |-> <<>>]

\* props found by the heuristics
BaseProps ==
    {[vintage |-> v, wine_type |-> w, oak |-> o, grapes |-> g,
      tasting_notes |-> PList(<<ItemStr("mineral"), ItemStr("apple")>>)] :
        v \in {PNone, PInt(2019)},
        w \in {PNone, PStr(<<>>), PStr(<<" ">>), PStr(<<"r", "e", "d">>)},
        o \in {PNone, PBool(FALSE)},
        g \in {PList(<<>>), PList(<<ItemStr("riesling")>>)}}

\* what the LLM gave: keys missing, None, values, values of a wrong type
LlmDicts ==
    {[vintage |-> v, wine_type |-> w, oak |-> o, grapes |-> g,
      tasting_notes |-> n] :
        v \in {PAbsent, PNone, PInt(2021), PStr(<<"n", "/", "a">>)},
        w \in {PAbsent, PStr(<<>>), PStr(<<"w", "h", "i", "t", "e">>)},
        o \in {PAbsent, PBool(TRUE)},
        g \in {PAbsent, PList(<<ItemStr("apple"), ItemInt(7)>>),
               PStr(<<"r", "e", "d">>)},
        n \in {PAbsent, PList(<<>>)}}

LlmInputs ==
    {[type |-> "dict", d |-> d] : d \in LlmDicts}
    \cup {[type |-> "WineProps", d |-> d] :
            d \in {x \in LlmDicts : \A k \in WineFields : Validates(k, model_dump(x)[k])}}
    \cup {[type |-> "other", d |-> [k \in WineFields |-> PAbsent]]}

-----------------------------------------------------------------------------
(* The state machine *)

\* the number of clamp() calls made on one profile
MaxClamps == 2

\* the number of writes (saves and clears) made to the cache
MaxOps == 3

\* the number of calls a caller makes one after the other
MaxCalls == 3

Init ==
    /\ call = [th \in Threads |-> Idle]
    /\ log = <<>>
    /\ nanCast \in {0, 255}
    /\ profile = NoProfile
    /\ db = EmptyDb
    /\ req = [r \in Requesters |-> NoReq]
    /\ saved = <<>>
    /\ merge = NoMerge
    /\ files = NoFiles

\* a caller enters generate_wine_png_bytes(viz, size)
Start(th, inputs) ==
    /\ call[th].pc = "idle"
    /\ \E i \in inputs :
         call' = [call EXCEPT ![th] = [Fresh(i.viz, i.size) EXCEPT !.nth = Len(log)]]
    /\ UNCHANGED <<log, nanCast, restVars>>

DoParse(th) ==
    /\ call[th].pc = "parse"
    /\ call' = [call EXCEPT ![th] = Parse(LocalsOf(call, th))]
    /\ UNCHANGED <<log, nanCast, restVars>>

DoBaseLayer(th) ==
    /\ call[th].pc = "base"
    /\ call' = [call EXCEPT ![th] = BaseLayer(LocalsOf(call, th))]
    /\ UNCHANGED <<log, nanCast, restVars>>

DoRing(th) ==
    /\ call[th].pc = "rings"
    /\ call' = [call EXCEPT ![th] = RingStep(LocalsOf(call, th))]
    /\ UNCHANGED <<log, nanCast, restVars>>

DoDots(th) ==
    /\ call[th].pc = "dots"
    /\ call' = [call EXCEPT ![th] = Dots(LocalsOf(call, th))]
    /\ UNCHANGED <<log, nanCast, restVars>>

DoSparkles(th) ==
    /\ call[th].pc = "sparkles"
    /\ call' = [call EXCEPT ![th] = Sparkles(LocalsOf(call, th))]
    /\ UNCHANGED <<log, nanCast, restVars>>

DoBlur(th) ==
    /\ call[th].pc = "blur"
    /\ call' = [call EXCEPT ![th] = Blur(LocalsOf(call, th), nanCast)]
    /\ UNCHANGED <<log, nanCast, restVars>>

DoRimRepair(th) ==
    /\ call[th].pc = "rim"
    /\ call' = [call EXCEPT ![th] = RimRepair(LocalsOf(call, th))]
    /\ UNCHANGED <<log, nanCast, restVars>>

DoMask(th) ==
    /\ call[th].pc = "mask"
    /\ call' = [call EXCEPT ![th] = Mask(LocalsOf(call, th), nanCast)]
    /\ UNCHANGED <<log, nanCast, restVars>>

DoSugarBar(th) ==
    /\ call[th].pc = "bar"
    /\ call' = [call EXCEPT ![th] = SugarBar(LocalsOf(call, th))]
    /\ UNCHANGED <<log, nanCast, restVars>>

DoEncode(th) ==
    /\ call[th].pc = "encode"
    /\ call' = [call EXCEPT ![th] = Encode(LocalsOf(call, th))]
    /\ UNCHANGED <<log, nanCast, restVars>>

\* the call returns its bytes, or its exception reaches the caller
Return(th) ==
    /\ call[th].pc \in {"done", "raised"}
    /\ call' = [call EXCEPT ![th] = Idle]
    /\ UNCHANGED <<log, nanCast, restVars>>

\* the same, the finished call being kept: what was passed, what was
\* returned or raised, and the locals the call ended with
ReturnLogged(th) ==
    /\ call[th].pc \in {"done", "raised"}
    /\ call' = [call EXCEPT ![th] = Idle]
    /\ log' = Append(log, call[th])
    /\ UNCHANGED <<nanCast, restVars>>

Stages(th) ==
    \/ DoParse(th) \/ DoBaseLayer(th) \/ DoRing(th) \/ DoDots(th)
    \/ DoSparkles(th) \/ DoBlur(th) \/ DoRimRepair(th) \/ DoMask(th)
    \/ DoSugarBar(th) \/ DoEncode(th)

\* arguments for the two variants: the example record as a sparkling wine
\* with sugar and a sparkling red, with a size and a path; a malformed
\* colour; no key, the size and the path left out
VariantInputs ==
    {[viz |-> With(With(ExampleViz, "effervescence", Num(500)),
                   "residual_sugar", Num(50000)),
      size |-> 16, out_path |-> "out/a.png"],
     [viz |-> With(RedViz, "effervescence", Num(500)),
      size |-> 16, out_path |-> NoPath],
     [viz |-> With(EmptyViz, "base_color_hex", Str(HexShort)),
      size |-> 16, out_path |-> "out/a.png"],
     [viz |-> EmptyViz, size |-> NoArg, out_path |-> NoPath]}

\* the number of paths written
MaxFiles == 1

\* a caller passes the same record and the same size, or no size, to
\* generate_wine_png_bytes in thread bytesTh and to generate_wine_png in
\* thread fileTh, MaxFiles paths at most being written
StartBoth(bytesTh, fileTh) ==
    /\ call[bytesTh].pc = "idle" /\ call[fileTh].pc = "idle"
    /\ Cardinality(DOMAIN files) < MaxFiles
    /\ \E i \in VariantInputs :
         call' = [call EXCEPT ![bytesTh] = BytesEntry(i.viz, i.size),
                              ![fileTh] = FileEntry(i.viz, i.size, i.out_path)]
    /\ UNCHANGED <<log, nanCast, restVars>>

\* a stage of generate_wine_png before the image is saved
FileStage(th) ==
    /\ call[th].pc \in {"parse", "base", "rings", "dots", "sparkles", "blur",
                        "rim", "mask", "bar"}
    /\ call' = [call EXCEPT ![th] = FileStageResult(call[th], nanCast)]
    /\ UNCHANGED <<log, nanCast, restVars>>

\* generate_wine_png saves the image and returns None
FileSave(th) ==
    /\ call[th].pc = "encode"
    /\ files' = SavePng(files, call[th])
    /\ call' = [call EXCEPT ![th].pc = "done"]
    /\ UNCHANGED <<log, nanCast, profile, db, req, saved, merge>>

\* one caller; records varying one scalar, and canvas sizes
StartScalar == Start(1, ScalarInputs)
StartSize == Start(1, SizeInputs)
Next == StartScalar \/ StartSize \/ Stages(1) \/ Return(1)
Spec == Init /\ [][Next]_vars

\* one caller; base colours and wine types
StartFamily == Start(1, FamilyInputs)
NextFamily == StartFamily \/ Stages(1) \/ Return(1)
SpecFamily == Init /\ [][NextFamily]_vars

\* records with rings, dots and sparkle marks, at two canvas sizes
RepeatInputs ==
    {[viz |-> v, size |-> 16] :
        v \in {EmptyViz, ExampleViz, With(RedViz, "effervescence", Num(500))}}
    \cup {[viz |-> ExampleViz, size |-> 17]}

\* one caller making MaxCalls calls one after the other and keeping what
\* each returned
StartRepeat == Len(log) < MaxCalls /\ Start(1, RepeatInputs)
NextRepeat == StartRepeat \/ Stages(1) \/ ReturnLogged(1)
SpecRepeat == Init /\ [][NextRepeat]_vars

\* residual sugars below, at and above the ends of the scale (milli g/L)
BarInputs ==
    {[viz |-> With(EmptyViz, "residual_sugar", Num(g)), size |-> 40] :
        g \in {0 - 1000, 0, 500, 1000, 5000, 9000, 50000, 499000, 500000,
               600000}}

\* one caller rendering bars one after the other
StartBar == Len(log) < MaxCalls - 1 /\ Start(1, BarInputs)
NextBar == StartBar \/ Stages(1) \/ ReturnLogged(1)
SpecBar == Init /\ [][NextBar]_vars

\* a VizProfile of models.py is constructed
NewProfile ==
    /\ profile.cls = "none"
    /\ \E p \in ProfileInputs :
         profile' = [cls |-> "models", obj |-> p, before |-> p, clamps |-> 0]
    /\ UNCHANGED <<renderVars, merge, db, req, saved>>

\* a VizProfile of app.py is constructed
NewAppProfile ==
    /\ profile.cls = "none"
    /\ \E p \in AppProfileInputs :
         profile' = [cls |-> "app", obj |-> p, before |-> p, clamps |-> 0]
    /\ UNCHANGED <<renderVars, merge, db, req, saved>>

\* vp.clamp() on the profile of models.py; before keeps the profile as it
\* was when the call began
DoClamp ==
    /\ profile.cls = "models"
    /\ profile.clamps < MaxClamps
    /\ profile' = [profile EXCEPT !.before = profile.obj,
                                  !.obj = clamp(profile.obj),
                                  !.clamps = profile.clamps + 1]
    /\ UNCHANGED <<renderVars, merge, db, req, saved>>

\* vp.clamp() on the profile of app.py
DoAppClamp ==
    /\ profile.cls = "app"
    /\ profile.clamps < MaxClamps
    /\ profile' = [profile EXCEPT !.before = profile.obj,
                                  !.obj = app_clamp(profile.obj),
                                  !.clamps = profile.clamps + 1]
    /\ UNCHANGED <<renderVars, merge, db, req, saved>>

\* the profile is dropped
DropProfile ==
    /\ profile.cls # "none"
    /\ profile' = NoProfile
    /\ UNCHANGED <<renderVars, merge, db, req, saved>>

NextClamp == NewProfile \/ NewAppProfile \/ DoClamp \/ DoAppClamp \/ DropProfile
SpecClamp == Init /\ [][NextClamp]_vars

\* requester r calls save_to_cache; saved keeps the writes in the order of
\* their commits
Save(r) ==
    /\ req[r].pc = "idle"
    /\ Len(saved) < MaxOps
    /\ \E name \in WineNames, p \in Payloads :
         /\ db' = save_to_cache(db, name, p.viz, p.summary, p.props, p.hex)
         /\ saved' = Append(saved, [op |-> "save", name |-> name, viz |-> p.viz,
                                    summary |-> p.summary, props |-> p.props,
                                    hex |-> p.hex])
    /\ UNCHANGED <<renderVars, merge, profile, req>>

\* requester r calls get_cached_wine and holds what it returned
GetWine(r) ==
    /\ req[r].pc = "idle"
    /\ \E name \in WineNames :
         req' = [req EXCEPT ![r] = [NoReq EXCEPT !.op = "get", !.pc = "done",
                                                 !.name = name,
                                                 !.result = get_cached_wine(db, name)]]
    /\ UNCHANGED <<renderVars, merge, profile, db, saved>>

\* clear_cache up to count = cursor.fetchone()["count"]
ClearBegin(r) ==
    /\ req[r].pc = "idle"
    /\ Len(saved) < MaxOps
    /\ req' = [req EXCEPT ![r] = [NoReq EXCEPT !.op = "clear", !.pc = "counted",
                                               !.count = ClearCount(db)]]
    /\ UNCHANGED <<renderVars, merge, profile, db, saved>>

\* clear_cache from the DELETE to return count; deleted is the number of
\* rows the DELETE removed
ClearEnd(r) ==
    /\ req[r].pc = "counted"
    /\ db' = ClearDelete(db)
    /\ req' = [req EXCEPT ![r].pc = "done", ![r].deleted = Cardinality(db.rows)]
    /\ saved' = Append(saved, [op |-> "clear", name |-> <<>>, viz |-> PyNone,
                               summary |-> PyNone, props |-> PyNone,
                               hex |-> PyNone])
    /\ UNCHANGED <<renderVars, merge, profile>>

\* clear_cache run alone, from its first statement to its return
Clear(r) ==
    /\ req[r].pc = "idle"
    /\ Len(saved) < MaxOps
    /\ db' = ClearDelete(db)
    /\ req' = [req EXCEPT ![r] = [NoReq EXCEPT !.op = "clear", !.pc = "done",
                                               !.count = ClearCount(db),
                                               !.deleted = Cardinality(db.rows)]]
    /\ saved' = Append(saved, [op |-> "clear", name |-> <<>>, viz |-> PyNone,
                               summary |-> PyNone, props |-> PyNone,
                               hex |-> PyNone])
    /\ UNCHANGED <<renderVars, merge, profile>>

\* the caller has taken what the call returned
Taken(r) ==
    /\ req[r].pc = "done"
    /\ req' = [req EXCEPT ![r] = NoReq]
    /\ UNCHANGED <<renderVars, merge, profile, db, saved>>

\* what a save passes over an entry: everything given; {} and "" with the
\* rest omitted; the viz and the summary omitted with {} and ""
OverwritePayloads ==
    {[viz |-> Py(VizRose), summary |-> Py(<<"d", "r", "y">>),
      props |-> Py(PropsOak), hex |-> Py(HexDefault)],
     [viz |-> Py(<<>>), summary |-> Py(<<>>), props |-> PyNone,
      hex |-> PyNone],
     [viz |-> PyNone, summary |-> PyNone, props |-> Py(<<>>),
      hex |-> Py(<<>>)]}

\* requester r calls save_to_cache with one of two spellings of a wine
SaveOver(r) ==
    /\ req[r].pc = "idle"
    /\ Len(saved) < MaxOps
    /\ \E name \in {NameAbC, NameAbCSpaced}, p \in OverwritePayloads :
         /\ db' = save_to_cache(db, name, p.viz, p.summary, p.props, p.hex)
         /\ saved' = Append(saved, [op |-> "save", name |-> name, viz |-> p.viz,
                                    summary |-> p.summary, props |-> p.props,
                                    hex |-> p.hex])
    /\ UNCHANGED <<renderVars, merge, profile, req>>

\* one requester saving over an entry and reading it
NextOverwrite == SaveOver(1) \/ GetWine(1) \/ Taken(1)
SpecOverwrite == Init /\ [][NextOverwrite]_vars

\* one requester, its calls one after the other
NextCache == Save(1) \/ GetWine(1) \/ Clear(1) \/ Taken(1)
SpecCache == Init /\ [][NextCache]_vars

\* requester 1 clears the cache while requester 2 saves
NextCacheRace == ClearBegin(1) \/ ClearEnd(1) \/ Taken(1) \/ Save(2)
SpecCacheRace == Init /\ [][NextCacheRace]_vars

\* llm.py merges what the LLM gave into the props it has
MergeLlm ==
    /\ merge.fn = "none"
    /\ \E base \in BaseProps, llm \in LlmInputs :
         LET r == _merge_props_non_destructive(base, llm)
         IN merge' = [fn |-> "llm", base |-> base, llm |-> llm, err |-> r.err,
                      out |-> r.props]
    /\ UNCHANGED <<renderVars, restProps>>

\* app.py does the same with its own function
MergeApp ==
    /\ merge.fn = "none"
    /\ \E base \in BaseProps, llm \in LlmInputs :
         LET r == app_merge_props_non_destructive(base, llm)
         IN merge' = [fn |-> "app", base |-> base, llm |-> llm, err |-> r.err,
                      out |-> r.props]
    /\ UNCHANGED <<renderVars, restProps>>

\* the caller goes on with the merged props
MergeTaken ==
    /\ merge.fn # "none"
    /\ merge' = NoMerge
    /\ UNCHANGED <<renderVars, restProps>>

NextMerge == MergeLlm \/ MergeApp \/ MergeTaken
SpecMerge == Init /\ [][NextMerge]_vars

\* two callers, the stages of their calls interleaved
StartConcurrent(th) == Start(th, RepeatInputs)
NextConcurrent ==
    \E th \in Threads : StartConcurrent(th) \/ Stages(th) \/ Return(th)
SpecConcurrent == Init /\ [][NextConcurrent]_vars

\* caller 1 uses the in-memory variant and caller 2 the file variant, side
\* by side
NextVariants ==
    \/ StartBoth(1, 2) \/ Stages(1) \/ Return(1)
    \/ FileStage(2) \/ FileSave(2) \/ Return(2)
SpecVariants == Init /\ [][NextVariants]_vars

-----------------------------------------------------------------------------
(* Properties of the family classification (SpecFamily) *)

\* a call that has classified its family
Classified(c) == c.pc \notin {"idle", "parse", "raised"}

\* the text of the record's wine_type: auto for no key (the default of
\* viz.get), <<>> for None
WineTypeOf(viz) ==
    IF "wine_type" \notin DOMAIN viz THEN T_auto
    ELSE IF viz["wine_type"].kind = "str" THEN viz["wine_type"].text ELSE <<>>

\* The classification by brightness b = mean(R, G, B) / 255 as the
\* specification words it: red iff b < 0.5; rose iff 0.5 <= b < 0.7 and
\* R > G + 30 and G < 160; white otherwise.  b < x / y is 255 * 3 * x >
\* (R + G + B) * y.
FamilyByBrightness(rgb) ==
    LET sum == rgb[1] + rgb[2] + rgb[3]
        red == 2 * sum < 765
        rose == 2 * sum >= 765 /\ 10 * sum < 5355
                /\ rgb[1] > rgb[2] + 30 /\ rgb[2] < 160
    IN IF red THEN "red" ELSE IF rose THEN "rose" ELSE "white"

\* the family a call renders with
FamilyUsed(c) ==
    IF c.fam.is_red_wine /\ c.fam.is_rose THEN "both"
    ELSE IF c.fam.is_red_wine THEN "red"
    ELSE IF c.fam.is_rose THEN "rose" ELSE "white"

\* C7: with wine_type auto (or no wine_type), the family used is exactly
\* the one the brightness rule gives - red iff b < 0.5, rose iff
\* 0.5 <= b < 0.7 and R > G + 30 and G < 160, white otherwise - never red
\* and rose at once, and the colour #808080 is white.
C7_AutoClassification ==
    \A th \in Threads :
        LET c == call[th]
        IN (Classified(c) /\ WineTypeOf(c.viz) = T_auto)
           => /\ FamilyUsed(c) = FamilyByBrightness(c.base_rgb)
              /\ FamilyUsed(c) # "both"
              /\ (c.base_rgb = <<128, 128, 128>> => FamilyUsed(c) = "white")

\* a finished render of #808080 with wine_type auto or absent, as white
C7_Witness ==
    \E th \in Threads :
        /\ call[th].pc = "done"
        /\ WineTypeOf(call[th].viz) = T_auto
        /\ call[th].base_rgb = <<128, 128, 128>>
        /\ FamilyUsed(call[th]) = "white"

\* C8 as claimed: a wine_type of red, rosé or white is used verbatim
\* whatever the base colour, and the brightness rule is applied only for
\* auto or no wine_type.
C8_ExplicitFamilyClaim ==
    \A th \in Threads :
        LET c == call[th]
            wt == WineTypeOf(c.viz)
        IN Classified(c)
           => /\ wt = T_red => FamilyUsed(c) = "red"
              /\ wt = T_rose_accent => FamilyUsed(c) = "rose"
              /\ wt = T_white => FamilyUsed(c) = "white"

\* C8 as amended: a wine_type of red, rose (unaccented) or white is used
\* verbatim whatever the base colour; for every other value - auto, None,
\* no key, and the values rosé and sparkling of WINE_TYPES - the family is
\* the one the brightness rule gives.
C8_ExplicitFamily ==
    \A th \in Threads :
        LET c == call[th]
            wt == WineTypeOf(c.viz)
        IN Classified(c)
           => /\ wt = T_red => FamilyUsed(c) = "red"
              /\ wt = T_rose => FamilyUsed(c) = "rose"
              /\ wt = T_white => FamilyUsed(c) = "white"
              /\ wt \notin {T_red, T_rose, T_white}
                    => FamilyUsed(c) = FamilyByBrightness(c.base_rgb)

\* a finished render with wine_type rose of a colour the brightness rule
\* calls red
C8_Witness ==
    \E th \in Threads :
        /\ call[th].pc = "done"
        /\ WineTypeOf(call[th].viz) = T_rose
        /\ FamilyByBrightness(call[th].base_rgb) = "red"
        /\ FamilyUsed(call[th]) = "rose"

\* the record's base colour is a string that is not hexadecimal or has
\* not six hex digits
Malformed(viz) ==
    /\ "base_color_hex" \in DOMAIN viz
    /\ viz["base_color_hex"].kind = "str"
    /\ viz["base_color_hex"].text \in NonHex \cup WrongLength

\* C9: a malformed base colour never makes the render fail; the renderer
\* uses the standard colour #F6F2AF (246, 242, 175) for it.
C9_MalformedColorFallsBack ==
    \A th \in Threads :
        LET c == call[th]
        IN Malformed(c.viz)
           => /\ c.pc # "raised"
              /\ Classified(c) => c.base_rgb = <<246, 242, 175>>


-----------------------------------------------------------------------------
(* Properties of a render (Spec) *)

\* the scalar field has no value, None, or a value float() refuses
Unusable(viz, f) ==
    \/ f \notin DOMAIN viz
    \/ viz[f] \in UnusableCells

\* the image has pixels right of the s x s canvas
BarAppended(c) == \E p \in DOMAIN c.out.image.px : p[1] >= c.size

\* C1: the rendered image is s x s pixels when the parsed residual_sugar is
\* <= 0 or absent, and (s + bar_width) x s pixels with bar_width =
\* max(int(0.05 * s), 30) when it is > 0; the bar is appended if and only
\* if residual_sugar > 0.
C1_ImageDimensions ==
    \A th \in Threads :
        LET c == call[th]
            s == c.size
            img == c.out.image
            bar_width == IF (5 * s) \div 100 > 30 THEN (5 * s) \div 100 ELSE 30
        IN c.pc = "done"
           => /\ img.h = s
              /\ c.par["residual_sugar"] > 0 => img.w = s + bar_width
              /\ c.par["residual_sugar"] <= 0 => img.w = s
              /\ BarAppended(c) <=> c.par["residual_sugar"] > 0

\* a finished render of 100 x 100 with residual sugar 4 g/L: 130 x 100
C1_Witness ==
    \E th \in Threads :
        /\ call[th].pc = "done"
        /\ call[th].size = 100
        /\ call[th].par["residual_sugar"] = 4000
        /\ call[th].out.image.w = 130
        /\ BarAppended(call[th])

\* C4: in the final image every pixel of the s x s canvas whose normalised
\* radius t is >= 1.08 has the background colour (252, 252, 254).
C4_RimIsBackground ==
    \A th \in Threads :
        LET c == call[th]
        IN c.pc = "done"
           => \A p \in DOMAIN c.t :
                  c.t[p] >= 1080 => c.out.image.px[p] = <<252, 252, 254>>

\* a finished render of a red wine with a canvas pixel between t = 1.08
\* and t = 1.2 that has the background colour
C4_Witness ==
    \E th \in Threads :
        LET c == call[th]
        IN /\ c.pc = "done"
           /\ c.fam.is_red_wine
           /\ \E p \in DOMAIN c.t :
                /\ c.t[p] >= 1080 /\ c.t[p] < 1200
                /\ c.out.image.px[p] = <<252, 252, 254>>

\* the intensity of the ring the call's loop stands at
RingIntensity(c) == c.par[RING_DEFINITIONS[c.ring].field]

\* C5: a ring is composited if and only if its intensity is >= 0.2: an
\* iteration of the ring loop with intensity below 0.2 leaves every pixel
\* of the running image unchanged, and one with intensity 0.2 or more
\* composites the ring and changes the image.
C5_RingThreshold ==
    [][\A th \in Threads :
          (call[th].pc = "rings" /\ call'[th].ring = call[th].ring + 1)
          => LET c == call[th]
                 d == call'[th]
             IN /\ RingIntensity(c) < 200
                     => d.wine = c.wine /\ d.drawn = c.drawn
                /\ RingIntensity(c) >= 200
                     => /\ d.wine # c.wine
                        /\ Len(d.drawn) = Len(c.drawn) + 1
                        /\ d.drawn[Len(d.drawn)].ring = c.ring]_vars

\* a render past its ring loop that has composited the first ring at an
\* intensity of exactly 0.2
C5_Witness ==
    \E th \in Threads :
        LET c == call[th]
        IN /\ c.pc = "dots"
           /\ c.par["oak_intensity"] = 200
           /\ \E i \in 1..Len(c.drawn) : c.drawn[i].ring = 1

\* C6: the opacity of a composited ring is weight x (0.08 + intensity x
\* 0.27), and intensities 0.2..1.0 map to 0.08..0.35 of the weight: 0.08 x
\* weight at intensity 0.2, 0.35 x weight at intensity 1.0.
C6_RingOpacityRange ==
    \A th \in Threads :
        \A i \in 1..Len(call[th].drawn) :
            LET d == call[th].drawn[i]
                intensity == call[th].par[RING_DEFINITIONS[d.ring].field]
            IN /\ d.coeff = 80 + (intensity * 270) \div 1000
               /\ intensity = 200 => d.coeff = 80
               /\ intensity = 1000 => d.coeff = 350

\* C10: a scalar field that is missing, None or not convertible to a number
\* is read as that field's default (0.5 for acidity, body and depth, 0.0
\* for the others), and the render does not raise.
C10_DefaultSubstitution ==
    \A th \in Threads :
        LET c == call[th]
        IN /\ (\E f \in FieldSet : Unusable(c.viz, f)) => c.pc # "raised"
           /\ c.pc \notin {"idle", "parse", "raised"}
              => \A f \in FieldSet :
                    Unusable(c.viz, f)
                    => c.par[f] = IF f \in {"acidity", "body", "depth"}
                                  THEN 500 ELSE 0

\* a finished render of a record whose acidity is the text "abc"
C10_Witness ==
    \E th \in Threads :
        /\ call[th].pc = "done"
        /\ "acidity" \in DOMAIN call[th].viz
        /\ call[th].viz["acidity"] = Str(TextWord)
        /\ call[th].par["acidity"] = 500


-----------------------------------------------------------------------------
(* Properties of repeated and concurrent calls *)

\* C2: two calls with the same record and the same canvas size return the
\* same image, whatever calls were made before them.
C2_Determinism ==
    \A i, j \in 1..Len(log) :
        (log[i].viz = log[j].viz /\ log[i].size = log[j].size)
        => (log[i].out = log[j].out /\ log[i].err = log[j].err)

\* three calls returned: the first and the third with the same arguments,
\* the second with another record and another image
C2_Witness ==
    /\ Len(log) = 3
    /\ log[1].viz = log[3].viz /\ log[1].size = log[3].size
    /\ log[2].viz # log[1].viz
    /\ log[2].out # log[1].out
    /\ log[3].out.format = "PNG"
    /\ log[1].out = log[3].out

\* C3: a call whose stages are interleaved with those of another call
\* returns the image it returns when run alone.
C3_ConcurrentCallsIndependent ==
    \A th \in Threads :
        call[th].pc = "done"
        => call[th].out = Render(call[th].viz, call[th].size, nanCast).out

\* both calls finished, on different records, with different images
C3_Witness ==
    /\ call[1].pc = "done" /\ call[2].pc = "done"
    /\ call[1].viz # call[2].viz
    /\ call[1].out # call[2].out
    /\ call[2].marks # <<>>


-----------------------------------------------------------------------------
(* Properties of the scalars a render uses (Spec) *)

\* the rings a call has composited, in the order it composited them
DrawnRings(c) == [i \in 1..Len(c.drawn) |-> c.drawn[i].ring]

\* C11: for a record without numeric fields the renderer uses the
\* documented defaults - acidity and body 0.4 to 0.5, depth 0.4, mineral
\* 0.2 to 0.3, every other intensity, effervescence and residual_sugar 0.0,
\* base colour #F6F2AF - so the mineral ring (the second) is composited and
\* the oak, herbs, spice and fruit rings are not.
C11_DocumentedDefaults ==
    \A th \in Threads :
        LET c == call[th]
            rings == {DrawnRings(c)[i] : i \in 1..Len(c.drawn)}
        IN (DOMAIN c.viz = {} /\ c.pc \notin {"idle", "parse", "raised"})
           => /\ c.base_rgb = <<246, 242, 175>>
              /\ c.par["acidity"] \in 400..500
              /\ c.par["body"] \in 400..500
              /\ c.par["depth"] = 400
              /\ c.par["mineral_intensity"] \in 200..300
              /\ \A f \in FieldSet \ {"acidity", "body", "depth",
                                      "mineral_intensity"} : c.par[f] = 0
              /\ c.pc \notin {"base", "rings"}
                 => /\ 2 \in rings
                    /\ rings \cap ({1} \cup 4..10) = {}

\* C12: every scalar is clamped to [0, 1] before a stage uses it: the
\* intensity of every ring and the effervescence a call works with lie in
\* [0, 1], and a composited ring's opacity is at most 0.35 x weight.
C12_ScalarsClamped ==
    \A th \in Threads :
        LET c == call[th]
        IN c.pc \notin {"idle", "parse", "raised"}
           => /\ \A f \in FieldSet \ {"residual_sugar"} :
                    0 <= c.par[f] /\ c.par[f] <= 1000
              /\ \A i \in 1..Len(c.drawn) : c.drawn[i].coeff <= 350


\* C13: the bar's fill ratio is log10(clamp(sugar, 1, 500)) / log10(500):
\* exactly 1.0 for every sugar >= 500, exactly 0 for 0 < sugar <= 1, 0.259
\* at 5 g/L and 0.629 at 50 g/L, always within [0, 1], and non-decreasing
\* in sugar.
C13_SugarFillRatio ==
    \A i, j \in 1..Len(log) :
        LET a == log[i]
            b == log[j]
            sugar == a.par["residual_sugar"]
        IN sugar > 0
           => /\ 0 <= a.bar_height_ratio /\ a.bar_height_ratio <= 1000
              /\ sugar >= 500000 => a.bar_height_ratio = 1000
              /\ sugar <= 1000 => a.bar_height_ratio = 0
              /\ sugar = 5000 => a.bar_height_ratio = 259
              /\ sugar = 50000 => a.bar_height_ratio = 629
              /\ a.bar_height = (a.size * a.bar_height_ratio) \div 1000
              /\ sugar <= b.par["residual_sugar"]
                 => a.bar_height_ratio <= b.bar_height_ratio

\* two bars rendered: one for 50 g/L, filled to 0.629, and one for 600 g/L,
\* filled wholly
C13_Witness ==
    /\ Len(log) = 2
    /\ log[1].par["residual_sugar"] = 50000
    /\ log[1].bar_height_ratio = 629
    /\ log[2].par["residual_sugar"] = 600000
    /\ log[2].bar_height_ratio = 1000
    /\ log[2].bar_height = 40


-----------------------------------------------------------------------------
(* Properties of VizProfile.clamp() (SpecClamp) *)

\* C14: a second clamp() after a clamp() changes no field of the profile,
\* the fields set by the legacy sync of mineral, bubbles_intensity and
\* bubbles included.
C14_ClampIdempotent ==
    (profile.cls = "models" /\ profile.clamps >= 2)
    => profile.obj = profile.before

\* a profile with mineral 1.5 and mineral_intensity 0 clamped twice: the
\* sync has set mineral_intensity to 1.0 and the second call kept it
C14_Witness ==
    /\ profile.cls = "models"
    /\ profile.clamps = 2
    /\ profile.obj.mineral = 1500
    /\ profile.obj.mineral_intensity = 1000
    /\ profile.obj = profile.before

\* C15: after clamp() every float field of the profile lies in [0, 1].
C15_AllFloatsClamped ==
    profile.clamps >= 1
    => \A f \in (DOMAIN profile.obj) \ {"bubbles"} :
           0 <= profile.obj[f] /\ profile.obj[f] <= 1000


-----------------------------------------------------------------------------
(* Properties of the order of the stages and of the rings (Spec) *)

\* the stages in the order claimed
StageOrder ==
    <<"parse", "base", "rings", "dots", "sparkles", "blur", "rim", "mask",
      "bar", "encode", "done">>

\* the intensity fields of the rings in the order claimed: oak, minerality,
\* acidity, herbs, spice, citrus, stone, tropical, red, dark, body, depth
RingOrder ==
    <<"oak_intensity", "mineral_intensity", "acidity", "herbal_intensity",
      "spice_intensity", "fruit_citrus", "fruit_stone", "fruit_tropical",
      "fruit_red", "fruit_dark", "body", "depth">>

\* C16: a call runs base layer, rings, ambient dots, sparkle marks, blur,
\* rim repair, mask, sugar bar and encoding once each and in this order
\* (every step of a call goes from one stage to the next one, the ring loop
\* taking the twelve rings one after the other); the pixels of the sugar
\* bar reach the encoded image as they were drawn, neither blurred nor
\* masked.
C16_StageOrder ==
    /\ [][\A th \in Threads :
            LET a == call[th]
                b == call'[th]
            IN b # a =>
                 \/ a.pc = "idle" /\ b.pc = "parse"
                 \/ a.pc \in {"done", "raised"} /\ b.pc = "idle"
                 \/ a.pc = "parse" /\ b.pc = "raised"
                 \/ a.pc = "base" /\ b.pc = "rings" /\ b.ring = 1
                 \/ /\ a.pc = "rings" /\ b.pc = "rings"
                    /\ a.ring < 12 /\ b.ring = a.ring + 1
                 \/ a.pc = "rings" /\ b.pc = "dots" /\ a.ring = 12
                 \/ /\ a.pc \notin {"base", "rings"}
                    /\ \E i \in 1..Len(StageOrder) - 1 :
                          StageOrder[i] = a.pc /\ StageOrder[i + 1] = b.pc]_vars
    /\ [](\A th \in Threads :
            LET c == call[th]
            IN c.pc = "done" =>
                 \A p \in DOMAIN c.out.image.px :
                    p[1] >= c.size =>
                       c.out.image.px[p] \in {<<200, 200, 200>>, <<240, 62, 107>>})

\* a finished call of a white wine with rings drawn and the bar appended,
\* gray above the fill and magenta in it
C16_Witness ==
    \E th \in Threads :
        LET c == call[th]
        IN /\ c.pc = "done"
           /\ RepairsRim(c.fam)
           /\ Len(c.drawn) >= 3
           /\ \E p, q \in DOMAIN c.out.image.px :
                 /\ p[1] >= c.size /\ c.out.image.px[p] = <<200, 200, 200>>
                 /\ q[1] >= c.size /\ c.out.image.px[q] = <<240, 62, 107>>

\* C17: the rings a call has composited are, in the order of compositing,
\* those of the fixed order oak, minerality, acidity, herbs, spice, citrus,
\* stone, tropical, red, dark, body, depth whose intensity is at least 0.2:
\* each one once, none out of order, the centres strictly decreasing from
\* 0.78 to 0.12.
C17_RingOrder ==
    /\ Len(RING_DEFINITIONS) = 12
    /\ RING_DEFINITIONS[1].center = 780 /\ RING_DEFINITIONS[12].center = 120
    /\ \A i \in 1..12 : RING_DEFINITIONS[i].field = RingOrder[i]
    /\ \A i \in 1..11 : RING_DEFINITIONS[i].center > RING_DEFINITIONS[i + 1].center
    /\ \A th \in Threads :
        LET c == call[th]
            shown == {i \in 1..12 : c.par[RingOrder[i]] >= 200}
            done == IF c.pc = "rings" THEN 1..(c.ring - 1) ELSE 1..12
        IN c.pc \notin {"idle", "parse", "raised", "base"}
           => /\ {DrawnRings(c)[k] : k \in 1..Len(c.drawn)} = shown \cap done
              /\ \A k \in 1..Len(c.drawn) - 1 :
                    DrawnRings(c)[k] < DrawnRings(c)[k + 1]

\* a finished call with oak 1.0: oak, acidity, body and depth composited in
\* this order
C17_Witness ==
    \E th \in Threads :
        /\ call[th].pc = "done"
        /\ DrawnRings(call[th]) = <<1, 3, 11, 12>>


-----------------------------------------------------------------------------
(* Properties of the wine cache (SpecCache, SpecCacheRace) *)

RECURSIVE CanonFrom(_, _)
\* a name lower-cased, trimmed, every run of whitespace made one blank
CanonFrom(t, acc) ==
    IF t = <<>>
    THEN IF acc # <<>> /\ acc[Len(acc)] = " "
         THEN SubSeq(acc, 1, Len(acc) - 1) ELSE acc
    ELSE IF Head(t) \in Whitespace
         THEN IF acc = <<>> \/ acc[Len(acc)] = " "
              THEN CanonFrom(Tail(t), acc)
              ELSE CanonFrom(Tail(t), Append(acc, " "))
    ELSE CanonFrom(Tail(t), Append(acc, LowerChar(Head(t))))

SameWine(a, b) == CanonFrom(a, <<>>) = CanonFrom(b, <<>>)

\* the saves of a wine made since the last clear_cache, and the latest one
SavesOf(name) ==
    {i \in 1..Len(saved) :
        /\ saved[i].op = "save"
        /\ SameWine(saved[i].name, name)
        /\ \A j \in (i + 1)..Len(saved) : saved[j].op # "clear"}

LatestSave(name) ==
    saved[CHOOSE i \in SavesOf(name) : \A j \in SavesOf(name) : j <= i]

\* result.get(key)
Returned(result, key) == IF key \in result.keys THEN result[key] ELSE PyNone

\* requester 1 holds what a get_cached_wine returned
Got == req[1].op = "get" /\ req[1].pc = "done"

\* C18: a get_cached_wine(name2) returns None when no save since the last
\* clear_cache had a name equal to name2 after normalisation; when the
\* latest such save passed a non-empty viz, summary, props and hex, it
\* returns a dict with exactly these values.
C18_SaveThenGet ==
    Got =>
      IF SavesOf(req[1].name) = {} THEN req[1].result.none
      ELSE LET s == LatestSave(req[1].name)
               res == req[1].result
           IN (Truthy(s.viz) /\ Truthy(s.summary) /\ Truthy(s.props) /\ Truthy(s.hex))
              => /\ ~res.none
                 /\ {"viz", "combined_summary", "props", "hex"} \subseteq res.keys
                 /\ res.viz = s.viz
                 /\ res.combined_summary = s.summary
                 /\ res.props = s.props
                 /\ res.hex = s.hex

\* a wine saved as "Ab C" with {"body": 0.5, "type": "rosé"} and looked up
\* as " aB\t c\n": the values of the save are returned
C18_Witness ==
    /\ Got
    /\ req[1].name = NameAbCSpaced
    /\ SavesOf(NameAbCSpaced) # {}
    /\ LatestSave(NameAbCSpaced).name = NameAbC
    /\ req[1].result.viz = Py(VizRose)
    /\ req[1].result.props = Py(PropsOak)
    /\ req[1].result.hex = Py(HexDefault)

\* no two rows of the table hold the same wine
OnePerName ==
    \A r1, r2 \in db.rows : SameWine(r1.wine_name, r2.wine_name) => r1 = r2

\* a save of a wine that has a row leaves the table with the same rows (by
\* id) as before
SaveUpdatesInPlace ==
    [][(Len(saved') = Len(saved) + 1 /\ saved'[Len(saved')].op = "save")
        => LET name == saved'[Len(saved')].name
           IN (\E r \in db.rows : SameWine(r.wine_name, name))
              => {r.id : r \in db'.rows} = {r.id : r \in db.rows}]_vars

\* C19 as stated: at most one entry per normalized name, a save of a known
\* name updates its entry, and a later get_cached_wine returns the viz,
\* summary, props and hex of the most recent save, whatever they were.
C19_LatestSaveReturnedClaim ==
    /\ []OnePerName
    /\ SaveUpdatesInPlace
    /\ [](Got /\ SavesOf(req[1].name) # {}
          => LET s == LatestSave(req[1].name)
                 res == req[1].result
             IN /\ ~res.none
                /\ Returned(res, "viz") = s.viz
                /\ Returned(res, "combined_summary") = s.summary
                /\ Returned(res, "props") = s.props
                /\ Returned(res, "hex") = s.hex)

\* C19: at most one entry per normalized name, a save of a known name
\* updates its entry, and a later get_cached_wine returns the hex of the
\* most recent save and its viz, summary and props when they were non-empty;
\* for a viz, summary or props that was None or empty ({} or "") the
\* returned dict has no such key.
C19_LatestSaveReturned ==
    /\ []OnePerName
    /\ SaveUpdatesInPlace
    /\ [](Got /\ SavesOf(req[1].name) # {}
          => LET s == LatestSave(req[1].name)
                 res == req[1].result
                 kept(x) == IF Truthy(x) THEN x ELSE PyNone
             IN /\ ~res.none
                /\ ("viz" \in res.keys) = Truthy(s.viz)
                /\ ("combined_summary" \in res.keys) = Truthy(s.summary)
                /\ ("props" \in res.keys) = Truthy(s.props)
                /\ Returned(res, "viz") = kept(s.viz)
                /\ Returned(res, "combined_summary") = kept(s.summary)
                /\ Returned(res, "props") = kept(s.props)
                /\ Returned(res, "hex") = s.hex)

\* a wine saved twice under two spellings, the second time with {} as viz
\* and no hex: one row, and the get returns no viz and None as hex
C19_Witness ==
    /\ Got
    /\ Len(saved) = 2
    /\ saved[1].op = "save" /\ saved[2].op = "save"
    /\ saved[1].name # saved[2].name
    /\ Truthy(saved[1].viz)
    /\ saved[2].viz = Py(<<>>)
    /\ SavesOf(req[1].name) = {1, 2}
    /\ Cardinality(db.rows) = 1
    /\ "viz" \notin req[1].result.keys
    /\ req[1].result.hex = PyNone

\* C20: the number a clear_cache returns is the number of entries its DELETE
\* removed, saves of other requests interleaved or not.
C20_ClearReturnsDeleted ==
    \A r \in Requesters :
        (req[r].op = "clear" /\ req[r].pc = "done")
        => req[r].count = req[r].deleted


-----------------------------------------------------------------------------
(* Properties of _merge_props_non_destructive (SpecMerge) *)

\* a base value the claim calls non-missing: not None, no empty or blank str
NonMissing(v) ==
    /\ v.kind # "none"
    /\ v.kind = "str" => \E i \in 1..Len(v.text) : v.text[i] \notin Whitespace

\* the key k is in the dict the function iterates over
Supplied(m, k) ==
    \/ m.llm.type = "WineProps"
    \/ m.llm.type = "dict" /\ m.llm.d[k].kind # "absent"

\* C21: a merge that returns leaves every scalar field whose base value is
\* non-missing at its base value, keeps every element of the base lists
\* grapes and tasting_notes in the merged lists, and leaves every field the
\* LLM does not supply as it was, whatever the LLM gave.
C21_MergeNonDestructive ==
    (merge.fn # "none" /\ merge.err = "")
    => /\ \A k \in WineFields \ ListFields :
             NonMissing(merge.base[k]) => merge.out[k] = merge.base[k]
       /\ \A k \in ListFields :
             \A i \in 1..Len(merge.base[k].items) :
                \E j \in 1..Len(merge.out[k].items) :
                   merge.out[k].items[j] = merge.base[k].items[i]
       /\ \A k \in WineFields :
             ~Supplied(merge, k) => merge.out[k] = merge.base[k]

\* base has wine_type "red", no vintage and the grape riesling; the LLM gives
\* "white", 2021 and apple and 7: "red" stays, 2021 is taken, the grapes are
\* 7, apple, riesling
C21_Witness ==
    /\ merge.fn = "llm" /\ merge.err = ""
    /\ merge.llm.type = "dict"
    /\ merge.base.wine_type = PStr(<<"r", "e", "d">>)
    /\ merge.llm.d.wine_type = PStr(<<"w", "h", "i", "t", "e">>)
    /\ merge.out.wine_type = PStr(<<"r", "e", "d">>)
    /\ merge.base.vintage = PNone /\ merge.out.vintage = PInt(2021)
    /\ merge.out.grapes = PList(<<ItemStr("7"), ItemStr("apple"), ItemStr("riesling")>>)


-----------------------------------------------------------------------------
(* Properties of the layers and of the post-processing (Spec) *)

\* C22: no iteration of the ring loop changes a pixel with t >= 0.82,
\* whatever the ring and its intensity, so that after the ring stage these
\* pixels still hold their base-layer value; the taper is 0 exactly for
\* t >= 0.82 and 1 exactly for t <= 0.72.
C22_RingTaper ==
    /\ [][\A th \in Threads :
            call[th].pc = "rings" /\ call'[th].pc \in {"rings", "dots"}
            => \A p \in DOMAIN call[th].wine :
                  call[th].t[p] >= 820 => call'[th].wine[p] = call[th].wine[p]]_vars
    /\ [](\A th \in Threads :
            \A p \in DOMAIN call[th].t :
               /\ (Taper(call[th].t[p]) = 0) = (call[th].t[p] >= 820)
               /\ (Taper(call[th].t[p]) = 1000) = (call[th].t[p] <= 720))

\* the ring stage of a call with oak 1.0 has ended: the oak ring was drawn,
\* a pixel inside t < 0.82 differs from the base layer's and the canvas has
\* pixels with t between 0.82 and 0.92
C22_Witness ==
    \E th \in Threads :
        LET c == call[th]
        IN /\ c.pc = "dots"
           /\ Len(c.drawn) > 0 /\ c.drawn[1].ring = 1
           /\ \E p \in DOMAIN c.wine : c.t[p] >= 820 /\ c.t[p] < 920
           /\ \E p \in DOMAIN c.wine :
                 /\ c.t[p] > 720 /\ c.t[p] < 820
                 /\ c.wine[p] # BaseLayer(Parse(Fresh(c.viz, c.size))).wine[p]


\* the stages after the sparkle block
AfterSparkles == {"blur", "rim", "mask", "bar", "encode", "done"}

C24_FullAtOne ==
    \A th \in Threads :
        LET c == call[th]
        IN c.pc = "rim" /\ RepairsRim(c.fam)
           => \A p \in DOMAIN c.t :
                 OuterBlend(c.t[p]) = Clip(((c.t[p] - 850) * 1000) \div 150, 0, 1000)

\* C24: the rim repair changes no pixel of a red or rose call; for the
\* white family it leaves every pixel with t <= 0.85 as it is, blends the
\* clean ring-free colour with the weight (t - 0.85) / 0.08 in between and
\* replaces the pixel by the clean colour from t = 0.93 on.
C24_RimRepair ==
    [][\A th \in Threads :
          LET c == call[th]
              d == call'[th]
          IN c.pc = "rim" /\ d.pc = "mask"
             => /\ ~(~c.fam.is_red_wine /\ ~c.fam.is_rose) => d.wine = c.wine
                /\ (~c.fam.is_red_wine /\ ~c.fam.is_rose)
                   => \A p \in DOMAIN c.t :
                         LET t == c.t[p]
                             clean == CleanOuter(c.base_rgb, t)
                         IN /\ t <= 850 => d.wine[p] = c.wine[p]
                            /\ t >= 930 => d.wine[p] = clean
                            /\ t > 850 /\ t < 930
                               => d.wine[p] = Blend3(c.wine[p], clean,
                                                     ((t - 850) * 1000) \div 80)]_vars

\* a white call after the rim repair with a pixel inside the band that is
\* fully replaced before t = 1, one that is partly blended and one below
\* the band
C24_Witness ==
    \E th \in Threads :
        LET c == call[th]
        IN /\ c.pc = "mask"
           /\ ~c.fam.is_red_wine /\ ~c.fam.is_rose
           /\ \E p, q, r \in DOMAIN c.t :
                 /\ c.t[p] >= 930 /\ c.t[p] < 1000
                 /\ c.wine[p] = CleanOuter(c.base_rgb, c.t[p])
                 /\ c.t[q] > 850 /\ c.t[q] < 930
                 /\ c.wine[q] # CleanOuter(c.base_rgb, c.t[q])
                 /\ c.t[r] <= 850


\* the stages after the dot loop
AfterDots == {"sparkles"} \cup AfterSparkles

\* the dots of a call past the dot loop: int(0.0003 * size^2) of them, none
\* skipped, each in the canvas at a radius in [0.2, 0.85] * max_r with an
\* opacity in [0.10, 0.25] and a radius of 1 or 2 px
DotsAsDrawn(c) ==
    /\ Len(c.dots) = (3 * c.size * c.size) \div 10000
    /\ \A i \in 1..Len(c.dots) :
          LET m == c.dots[i]
          IN /\ 0 <= m.x /\ m.x < c.size /\ 0 <= m.y /\ m.y < c.size
             /\ 200 * 475 * c.size <= m.radius * 1000
             /\ m.radius * 1000 <= 850 * 475 * c.size
             /\ 100 <= m.opacity /\ m.opacity <= 250
             /\ m.size \in {1, 2}

\* C27: the dots of a call past the dot loop are int(0.0003 * size^2) dots
\* in the canvas at a radius in [0.2, 0.85] * max_r with an opacity in
\* [0.10, 0.25], and their radius is drawn from 1-2 px with both radii
\* occurring: a call that has drawn 20 dots or more has dots of radius 1
\* and dots of radius 2.
C27_DotRadii ==
    \A th \in Threads :
        LET c == call[th]
        IN c.pc \in AfterDots
           => /\ DotsAsDrawn(c)
              /\ Len(c.dots) >= 20
                 => \E i, j \in 1..Len(c.dots) :
                       c.dots[i].size = 1 /\ c.dots[j].size = 2

\* a call whose scalars have been read and all lie in [0, 1]
ScalarsInRange(c) ==
    /\ c.pc \notin {"idle", "parse", "raised"}
    /\ \A f \in DOMAIN c.par : f # "residual_sugar" => 0 <= c.par[f] /\ c.par[f] <= 1000

\* C29: in a call whose scalars lie in [0, 1] every blend weight lies in
\* [0, 1]: the opacity of every ring at every pixel is at most 0.35, a dot's
\* opacity at most 0.25, a star arm's opacity at most 0.8 at every step of
\* the arm, a round bubble's at most 0.85, and the rim-repair weight and
\* the mask alpha lie in [0, 1] at every pixel; a star's arm length is
\* positive.
C29_BlendWeights ==
    \A th \in Threads :
        LET c == call[th]
        IN ScalarsInRange(c)
           => /\ \A r \in 1..Len(RING_DEFINITIONS), p \in DOMAIN c.t :
                    LET op == RingOpacity(RingWeight(RING_DEFINITIONS[r], c.t[p]),
                                          c.par[RING_DEFINITIONS[r].field])
                    IN 0 <= op /\ op <= 350
              /\ \A i \in 1..Len(c.drawn) :
                    0 <= c.drawn[i].coeff /\ c.drawn[i].coeff <= 350
              /\ \A i \in 1..Len(c.dots) :
                    0 <= c.dots[i].opacity /\ c.dots[i].opacity <= 250
              /\ \A i \in 1..Len(c.marks) :
                    LET m == c.marks[i]
                    IN /\ \A k \in 1..Len(m.weights) :
                             /\ 0 <= m.weights[k]
                             /\ m.weights[k] <= IF m.kind = "star" THEN 800 ELSE 850
                       /\ m.kind = "star" => m.size > 0
              /\ \A p \in DOMAIN c.t :
                    /\ 0 <= OuterBlend(c.t[p]) /\ OuterBlend(c.t[p]) <= 1000
                    /\ 0 <= CircleAlpha(c.t[p]) /\ CircleAlpha(c.t[p]) <= 1000

\* a finished call with effervescence 1.0 and drawn rings: a star whose arm
\* starts at the opacity 0.8, a round bubble highlighted at 0.85
C29_Witness ==
    \E th \in Threads :
        LET c == call[th]
        IN /\ c.pc = "done" /\ ScalarsInRange(c)
           /\ c.par["effervescence"] = 1000
           /\ \E i, j \in 1..Len(c.marks) :
                 /\ c.marks[i].kind = "star" /\ c.marks[i].weights[1] = 800
                 /\ c.marks[j].kind = "bubble" /\ c.marks[j].weights[1] = 850
           /\ \E p \in DOMAIN c.t : CircleAlpha(c.t[p]) \in 1..999

(***************************************************************************)
(* Properties of the sugar bar (SpecBar)                                   *)
(***************************************************************************)

\* C25: in the appended bar of a finished call the bottom bar_height rows
\* (h - bar_height .. h - 1) are magenta (240, 62, 107) and the rows above
\* them (0 .. h - bar_height - 1) are gray (200, 200, 200).
C25_BarRowsPartition ==
    \A th \in Threads :
        LET c == call[th]
        IN c.pc = "done" /\ BarAppended(c)
           => \A p \in DOMAIN c.out.image.px :
                 p[1] >= c.size
                 => c.out.image.px[p] =
                        IF p[2] >= c.size - c.bar_height
                        THEN <<240, 62, 107>> ELSE <<200, 200, 200>>


\* C26: the fill ratio of a finished call follows the scale the code's
\* comment documents: 0 at 0 g/L, about 0.10 (within 0.15) at 9 g/L, about
\* 0.50 (within 0.15) at 50 g/L and 1 at 500 g/L.
C26_DocumentedScale ==
    \A i \in 1..Len(log) :
        LET a == log[i]
            sugar == a.par["residual_sugar"]
        IN /\ sugar = 0 => a.bar_height_ratio = 0
           /\ sugar = 9000 => Abs(a.bar_height_ratio - 100) <= 150
           /\ sugar = 50000 => Abs(a.bar_height_ratio - 500) <= 150
           /\ sugar = 500000 => a.bar_height_ratio = 1000


(***************************************************************************)
(* Properties of the two variants side by side (SpecVariants)              *)
(***************************************************************************)

\* the locals of a call apart from the function's name and its arguments'
\* form
LocalsOnly(c) == [c EXCEPT !.fn = "", !.given = 0, !.out_path = ""]

\* C28: caller 1 in generate_wine_png_bytes and caller 2 in
\* generate_wine_png, given the same record and the same size: whenever
\* they stand at the same stage (and the same ring) they have the same
\* locals, the generator's state included; one raises if and only if the
\* other does, with the same error; and the PNG the file variant has
\* written at its out_path is the PNG the in-memory variant returns.  With
\* size left out the in-memory variant renders 512 px and the file variant
\* 1024 px, with out_path left out the file is wine_test.png.
C28_SamePipeline ==
    LET a == call[1]
        b == call[2]
    IN /\ a.pc # "idle" => a.fn = "generate_wine_png_bytes"
       /\ b.pc # "idle" => b.fn = "generate_wine_png"
       /\ a.pc # "idle" /\ a.given = NoArg => a.size = 512
       /\ b.pc # "idle" /\ b.given = NoArg => b.size = 1024
       /\ b.pc # "idle" => b.out_path \in {"wine_test.png", "out/a.png"}
       /\ a.pc # "idle" /\ b.pc # "idle" /\ a.viz = b.viz /\ a.size = b.size
          => /\ a.pc = b.pc /\ a.ring = b.ring /\ a.pc # "done"
                => LocalsOnly(a) = LocalsOnly(b)
             /\ a.pc = "raised" /\ b.pc \in {"raised", "done"}
                => b.pc = "raised" /\ b.err = a.err
             /\ a.pc = "done" /\ b.pc \in {"raised", "done"}
                => /\ b.pc = "done"
                   /\ b.out_path \in DOMAIN files
                   /\ files[b.out_path] = a.out
                   /\ b.out.format = ""

\* both variants have finished the sparkling wine with 50 g/L of sugar on
\* 16 px: the file out/a.png holds the PNG the in-memory variant returned,
\* with its sparkle marks and its sugar bar
C28_Witness ==
    /\ call[1].pc = "done" /\ call[2].pc = "done"
    /\ call[1].viz = call[2].viz /\ call[1].size = 16 /\ call[2].size = 16
    /\ call[1].par["effervescence"] = 500
    /\ Len(call[2].marks) > 0 /\ Len(call[2].drawn) > 0
    /\ call[2].out_path = "out/a.png"
    /\ files["out/a.png"] = call[1].out
    /\ call[1].out.image.w = 16 + 30


(***************************************************************************)
(* Properties of a save over an entry (SpecOverwrite)                      *)
(***************************************************************************)

\* the column a save stores for a dict argument and for a text argument
StoredJson(x) == IF Truthy(x) THEN SqlText(dumps(x.val)) ELSE SqlNull
StoredText(x) == IF x.none THEN SqlNull ELSE SqlText(x.val)

\* C30: a save_to_cache of a name that has an entry leaves the entry's id,
\* wine_name, wine_name_normalized and created_at as they were and every
\* other entry untouched; it sets viz_profile, combined_summary, props and
\* hex_color to what the new arguments give, NULL for an omitted argument
\* and for {} included, and updated_at to the time of the save; a later
\* get_cached_wine returns the first save's spelling and created_at and
\* nothing of an earlier save's viz, summary, props or hex.
C30_SaveOverwrites ==
    /\ [][(Len(saved') = Len(saved) + 1 /\ saved'[Len(saved')].op = "save")
          => LET s == saved'[Len(saved')]
                 hit == {r \in db.rows : SameWine(r.wine_name, s.name)}
             IN hit # {}
                => /\ Cardinality(db'.rows) = Cardinality(db.rows)
                   /\ db.rows \ hit \subseteq db'.rows
                   /\ \A old \in hit :
                         \E new \in db'.rows :
                            /\ new.id = old.id
                            /\ new.wine_name = old.wine_name
                            /\ new.wine_name_normalized = old.wine_name_normalized
                            /\ new.created_at = old.created_at
                            /\ new.viz_profile = StoredJson(s.viz)
                            /\ new.combined_summary = StoredText(s.summary)
                            /\ new.props = StoredJson(s.props)
                            /\ new.hex_color = StoredText(s.hex)
                            /\ new.updated_at > old.updated_at
                            /\ new.updated_at > new.created_at]_vars
    /\ [](Got /\ SavesOf(req[1].name) # {}
          => LET s == LatestSave(req[1].name)
                 first == saved[CHOOSE i \in SavesOf(req[1].name) :
                                   \A j \in SavesOf(req[1].name) : i <= j]
                 res == req[1].result
             IN /\ res.wine_name = first.name
                /\ \A r \in db.rows :
                      SameWine(r.wine_name, req[1].name)
                      => res.created_at = r.created_at
                /\ Returned(res, "viz") = IF Truthy(s.viz) THEN s.viz ELSE PyNone
                /\ Returned(res, "combined_summary")
                       = IF Truthy(s.summary) THEN s.summary ELSE PyNone
                /\ Returned(res, "props")
                       = IF Truthy(s.props) THEN s.props ELSE PyNone
                /\ Returned(res, "hex") = s.hex)

\* an entry saved in full as "Ab C", saved again under another spelling
\* with the viz and the summary omitted and props {} and hex "", then read:
\* the first spelling and the first created_at, no viz, no summary, no
\* props, and the hex ""
C30_Witness ==
    /\ Got
    /\ Len(saved) = 2
    /\ saved[1].name = NameAbC /\ saved[2].name = NameAbCSpaced
    /\ Truthy(saved[1].viz) /\ Truthy(saved[1].props)
    /\ saved[2].viz = PyNone /\ saved[2].props = Py(<<>>)
    /\ Cardinality(db.rows) = 1
    /\ \A r \in db.rows :
          /\ r.viz_profile = SqlNull /\ r.props = SqlNull
          /\ r.combined_summary = SqlNull /\ r.hex_color = SqlText(<<>>)
          /\ r.updated_at > r.created_at
    /\ req[1].result.wine_name = NameAbC
    /\ req[1].result.keys = {"wine_name", "hex", "created_at"}
    /\ req[1].result.hex = Py(<<>>)

====
